---- MODULE Spec2Model ----
(***************************************************************************)
(* A model of convert.py, the converter of the WG14 document log to JSON   *)
(* metadata, and of the reverse-chronological lists of format.py           *)
(* (split_doc_id, DocList, write_chron).  Of convert.py: extraction of     *)
(* the log (get_ndoc_data), classification and grouping (classify_docs),   *)
(* identifier assignment for the auto-numbered                             *)
(* classes (generate_autonum_docs), for the catalog publications           *)
(* (generate_cpub_docs) and for the meeting documents                      *)
(* (generate_meeting_docs), emission (convert_docs, convert_cpub_docs) and *)
(* the top level sequence of action_convert.                               *)
(*                                                                         *)
(* Spec runs action_convert through the auto-numbered classes, SpecRun     *)
(* runs all of it; SpecDate, SpecClass and SpecGroup apply the date        *)
(* grammars, the classifier and the grouping of classify_docs to inputs    *)
(* of their own, SpecGroupFair being SpecGroup with the loop of            *)
(* classify_docs taking its steps.                                         *)
(* SpecCpub and SpecMeeting apply generate_cpub_docs and                   *)
(* generate_meeting_docs to record mappings of their own, SpecChron        *)
(* applies write_chron to loaded revisions.                                *)
(*                                                                         *)
(* Text is modelled at the level at which the code looks at it:            *)
(*   - record numbers and dates are sequences of one-character strings,    *)
(*     so int(), string comparison and the date regular expressions are    *)
(*     computed and not assumed;                                           *)
(*   - a title is a sequence of words followed by a sequence of trailing   *)
(*     revision markers; the phrase tests of the classifier are word       *)
(*     sequence containment on the lower-cased main title.                 *)
(* The override tables of the program are restricted to the record         *)
(* numbers that occur in the modelled logs.                                *)
(***************************************************************************)
EXTENDS Integers, Sequences, FiniteSets, TLC

VARIABLES
    pc,        \* position of action_convert
    lines,     \* the log lines read so far by get_ndoc_data, in file order
    data,      \* the record mapping: number -> record
    order,     \* iteration order of the mapping (dict insertion order)
    err,       \* the exception that ended the run, or NoErr
    changed,   \* the flag of the "updates" loop of classify_docs
    c_docs,    \* result of generate_autonum_docs for class c
    cadm_docs, \* result of generate_autonum_docs for class cadm
    out,       \* metadata.json files written so far, in order of writing
    cpub_docs,  \* first result of generate_cpub_docs
    cpubx_docs, \* second result of generate_cpub_docs
    mclass,    \* position of the loop over the meeting classes
    m_docs,    \* result of generate_meeting_docs for the last class
    side,      \* the lists written after the documents
    upc,       \* position of the harness of the pure functions
    uarg,      \* its input
    ures       \* its result

vars == <<pc, lines, data, order, err, changed, c_docs, cadm_docs, out,
          cpub_docs, cpubx_docs, mclass, m_docs, side, upc, uarg, ures>>

pipeVars == <<pc, lines, data, order, err, changed, c_docs, cadm_docs, out,
              cpub_docs, cpubx_docs, mclass, m_docs, side>>
lateVars == <<cpub_docs, cpubx_docs, mclass, m_docs, side>>
unitVars == <<upc, uarg, ures>>

----------------------------------------------------------------------------
(* Characters and strings.                                                 *)

DigitSeq == <<"0", "1", "2", "3", "4", "5", "6", "7", "8", "9">>
Digit == {DigitSeq[i] : i \in 1..10}
Upper == {"A", "B", "C", "D", "E", "F", "G", "H", "I", "J", "K", "L", "M",
          "N", "O", "P", "Q", "R", "S", "T", "U", "V", "W", "X", "Y", "Z"}
Lower == {"a", "b", "c", "d", "e", "f", "g", "h", "i", "j", "k", "l", "m",
          "n", "o", "p", "q", "r", "s", "t", "u", "v", "w", "x", "y", "z"}
Space == {" "}

\* int() of one decimal digit.
DigitVal(c) == (CHOOSE i \in 1..10 : DigitSeq[i] = c) - 1

\* int(nnum): the value of a decimal string, leading zeros allowed.
RECURSIVE int(_)
int(s) == IF s = <<>> THEN 0
          ELSE 10 * int(SubSeq(s, 1, Len(s) - 1)) + DigitVal(s[Len(s)])

\* str(n), '%d' % n: the decimal digits of a natural number.
RECURSIVE str(_)
str(n) == IF n < 10 THEN <<DigitSeq[n + 1]>>
          ELSE str(n \div 10) \o <<DigitSeq[(n % 10) + 1]>>

\* Code point of the characters that occur in numbers and dates.
Ord(c) == IF c \in Digit THEN 48 + DigitVal(c)
          ELSE IF c = "-" THEN 45
          ELSE IF c = "/" THEN 47
          ELSE 32

\* Python's < on str: lexicographic by code point, a proper prefix first.
RECURSIVE StrLess(_, _)
StrLess(s, t) ==
    IF t = <<>> THEN FALSE
    ELSE IF s = <<>> THEN TRUE
    ELSE IF Ord(s[1]) # Ord(t[1]) THEN Ord(s[1]) < Ord(t[1])
    ELSE StrLess(Tail(s), Tail(t))

\* > in place of >=.
StrGreater(s, t) == StrLess(t, s)

\* Python's >= on str.
StrGE(s, t) == ~StrLess(s, t)

----------------------------------------------------------------------------
(* get_ndoc_data: the date grammars.                                       *)

\* The months table of get_ndoc_data.
months ==
    [k \in {<<"J", "a", "n">>, <<"F", "e", "b">>, <<"M", "a", "r">>,
            <<"A", "p", "r">>, <<"M", "a", "y">>, <<"J", "u", "n">>,
            <<"J", "u", "l">>, <<"A", "u", "g">>, <<"S", "e", "p">>,
            <<"O", "c", "t">>, <<"N", "o", "v">>, <<"D", "e", "c">>} |->
        CASE k = <<"J", "a", "n">> -> <<"0", "1">>
          [] k = <<"F", "e", "b">> -> <<"0", "2">>
          [] k = <<"M", "a", "r">> -> <<"0", "3">>
          [] k = <<"A", "p", "r">> -> <<"0", "4">>
          [] k = <<"M", "a", "y">> -> <<"0", "5">>
          [] k = <<"J", "u", "n">> -> <<"0", "6">>
          [] k = <<"J", "u", "l">> -> <<"0", "7">>
          [] k = <<"A", "u", "g">> -> <<"0", "8">>
          [] k = <<"S", "e", "p">> -> <<"0", "9">>
          [] k = <<"O", "c", "t">> -> <<"1", "0">>
          [] k = <<"N", "o", "v">> -> <<"1", "1">>
          [] k = <<"D", "e", "c">> -> <<"1", "2">>]

NoDate == <<>>

\* r'(20[0-2][0-9])/([01][0-9])/([0-3][0-9])\s+(.*)'
MatchSlash(line) ==
    /\ Len(line) >= 11
    /\ line[1] = "2" /\ line[2] = "0"
    /\ line[3] \in {"0", "1", "2"} /\ line[4] \in Digit
    /\ line[5] = "/"
    /\ line[6] \in {"0", "1"} /\ line[7] \in Digit
    /\ line[8] = "/"
    /\ line[9] \in {"0", "1", "2", "3"} /\ line[10] \in Digit
    /\ line[11] \in Space

\* r'([0-3][0-9])-([A-Z][a-z]{2})-(200[1-5])\s+(.*)'
MatchDMonYYYY(line) ==
    /\ Len(line) >= 12
    /\ line[1] \in {"0", "1", "2", "3"} /\ line[2] \in Digit
    /\ line[3] = "-"
    /\ line[4] \in Upper /\ line[5] \in Lower /\ line[6] \in Lower
    /\ line[7] = "-"
    /\ line[8] = "2" /\ line[9] = "0" /\ line[10] = "0"
    /\ line[11] \in {"1", "2", "3", "4", "5"}
    /\ line[12] \in Space

\* r'([0-3][0-9])[- ]([A-Z][a-z]{2})[- ]([089][0-9])\s+(.*)'
MatchDMonYY(line) ==
    /\ Len(line) >= 10
    /\ line[1] \in {"0", "1", "2", "3"} /\ line[2] \in Digit
    /\ line[3] \in {"-", " "}
    /\ line[4] \in Upper /\ line[5] \in Lower /\ line[6] \in Lower
    /\ line[7] \in {"-", " "}
    /\ line[8] \in {"0", "8", "9"} /\ line[9] \in Digit
    /\ line[10] \in Space

\* '%s-%s-%s' % (year, month, day)
FormatDate(y, m, d) == y \o <<"-">> \o m \o <<"-">> \o d

\* The date part of get_ndoc_data: the three grammars in the order the code
\* tries them. The result is the date, or the exception raised.
ParseDate(line) ==
    IF MatchSlash(line)
    THEN [kind |-> "ok",
          date |-> FormatDate(SubSeq(line, 1, 4), SubSeq(line, 6, 7),
                              SubSeq(line, 9, 10))]
    ELSE IF MatchDMonYYYY(line)
    THEN IF SubSeq(line, 4, 6) \in DOMAIN months
         THEN [kind |-> "ok",
               date |-> FormatDate(SubSeq(line, 8, 11),
                                   months[SubSeq(line, 4, 6)],
                                   SubSeq(line, 1, 2))]
         ELSE [kind |-> "KeyError", date |-> NoDate]
    ELSE IF MatchDMonYY(line)
    THEN IF SubSeq(line, 4, 6) \in DOMAIN months
         THEN [kind |-> "ok",
               date |-> FormatDate(
                   (IF line[8] = "0" THEN <<"2", "0">> ELSE <<"1", "9">>)
                       \o SubSeq(line, 8, 9),
                   months[SubSeq(line, 4, 6)],
                   SubSeq(line, 1, 2))]
         ELSE [kind |-> "KeyError", date |-> NoDate]
    ELSE [kind |-> "could not parse date", date |-> NoDate]

----------------------------------------------------------------------------
(* Titles.  A title is its main words followed by its trailing revision    *)
(* markers ("v2", "Updates N1234", ...): the two parts the pattern of      *)
(* classify_docs splits it into.                                           *)

\* str.lower() of a word of the titles used here.
LowerWord(w) ==
    CASE w = "Agenda" -> "agenda"
      [] w = "Array" -> "array"
      [] w = "Big" -> "big"
      [] w = "C" -> "c"
      [] w = "Charter" -> "charter"
      [] w = "Committee" -> "committee"
      [] w = "Composite" -> "composite"
      [] w = "Draft" -> "draft"
      [] w = "Editor" -> "editor"
      [] w = "FP" -> "fp"
      [] w = "LaTeX" -> "latex"
      [] w = "Liaison" -> "liaison"
      [] w = "Minutes" -> "minutes"
      [] w = "Notes" -> "notes"
      [] w = "October" -> "october"
      [] w = "Progress" -> "progress"
      [] w = "Rationale" -> "rationale"
      [] w = "Report" -> "report"
      [] w = "Size" -> "size"
      [] w = "Standard" -> "standard"
      [] w = "Survey" -> "survey"
      [] w = "Teleconference" -> "teleconference"
      [] w = "The" -> "the"
      [] w = "Types" -> "types"
      [] w = "Venue" -> "venue"
      [] w = "Working" -> "working"
      [] OTHER -> w

\* ndata['maintitle'].lower()
lower(words) == [i \in 1..Len(words) |-> LowerWord(words[i])]

\* phrase in text, for a phrase and a text made of whole words.
Contains(text, phrase) ==
    \E i \in 1..(Len(text) - Len(phrase) + 1) :
        SubSeq(text, i, i + Len(phrase) - 1) = phrase

NoAux == <<>>

\* The split of a title into maintitle and auxtitle: the trailing markers
\* are the auxtitle, None when there is none.
MainTitle(title) == title.words
AuxTitle(title) == title.markers

\* re.search('[Uu]pdates?[: ][Nn]([0-9]+)', auxtitle): the markers that are
\* an "updates" reference with one separator character and an N number.
IsUpdatesRef(mk) ==
    /\ mk.kind = "updates"
    /\ mk.sep \in {":", " "}
    /\ mk.pfx \in {"N", "n"}

HasUpdatesRef(aux) == \E i \in 1..Len(aux) : IsUpdatesRef(aux[i])

\* m.group(1) of the first match.
UpdatesRef(aux) ==
    aux[CHOOSE i \in 1..Len(aux) :
            /\ IsUpdatesRef(aux[i])
            /\ \A j \in 1..(i - 1) : ~IsUpdatesRef(aux[j])].num

----------------------------------------------------------------------------
(* classify_docs: the heuristic class of a main title.                     *)

\* The chain with the generic "agenda" test moved before the floating-point
\* teleconference tests.
HeuristicClassAgendaFirst(maintitle) ==
    LET t == lower(maintitle)
        has(p) == Contains(t, p)
    IN  IF has(<<"working", "draft">>) THEN "cpub"
        ELSE IF has(<<"committee", "draft">>) THEN "cpub"
        ELSE IF has(<<"editor's", "report">>) THEN "cpub"
        ELSE IF has(<<"editor", "report">>) THEN "cpub"
        ELSE IF has(<<"editor", "progress", "report">>) THEN "cpub"
        ELSE IF has(<<"dts", "draft">>) THEN "cpub"
        ELSE IF has(<<"revision", "draft">>) THEN "cpub"
        ELSE IF has(<<"dis", "draft">>) THEN "cpub"
        ELSE IF has(<<"examples", "of", "undefined", "behavior">>) THEN "cpub"
        ELSE IF has(<<"ts", "proposal">>) THEN "cpub"
        ELSE IF has(<<"generalized", "function", "calls">>) THEN "cpub"
        ELSE IF has(<<"compendium">>) THEN "cpub"
        ELSE IF has(<<"cr", "summary">>) THEN "cpub"
        ELSE IF has(<<"clarification", "request", "summary">>) THEN "cpub"
        ELSE IF has(<<"dr", "report">>) THEN "cpub"
        ELSE IF has(<<"defect", "report", "summary">>) THEN "cpub"
        ELSE IF has(<<"thread-based", "parallelism">>) THEN "cpub"
        ELSE IF has(<<"latex">>) THEN "cpub"
        ELSE IF has(<<"dts", "17961">>) THEN "cpub"
        ELSE IF has(<<"wdtr">>) THEN "cpub"
        ELSE IF has(<<"issue", "log">>) THEN "cpub"
        ELSE IF has(<<"educational", "undefined", "behavior">>) THEN "cpub"
        ELSE IF has(<<"agenda">>) THEN "cma"
        ELSE IF has(<<"fp", "teleconference">>) /\ has(<<"agenda">>)
             THEN "cfptca"
        ELSE IF has(<<"c", "floating", "point", "study", "group",
                      "teleconference">>) THEN "cfptca"
        ELSE IF has(<<"fp", "teleconference">>)
                /\ (has(<<"minutes">>) \/ has(<<"notes">>)) THEN "cfptcm"
        ELSE IF has(<<"fp", "meeting", "minutes">>) THEN "cfptcm"
        ELSE IF has(<<"minutes">>) THEN "cmm"
        ELSE IF has(<<"agneda">>) THEN "cma"
        ELSE IF has(<<"venue">>) THEN "cm"
        ELSE IF has(<<"invitation">>) THEN "cm"
        ELSE IF has(<<"meeting", "information">>) THEN "cm"
        ELSE IF has(<<"hotel">>) THEN "cm"
        ELSE IF has(<<"charter">>) THEN "cadm"
        ELSE IF has(<<"schedule">>) THEN "cadm"
        ELSE IF has(<<"liaison", "report">>) THEN "cadm"
        ELSE IF has(<<"liaison", "statement">>) THEN "cadm"
        ELSE IF has(<<"compat", "teleconference">>) THEN "cadm"
        ELSE IF has(<<"omnibus">>) THEN "cadm"
        ELSE IF has(<<"business", "plan">>) THEN "cadm"
        ELSE IF has(<<"standing", "document">>) THEN "cadm"
        ELSE IF has(<<"misra">>) THEN "cadm"
        ELSE IF has(<<"call", "for">>) THEN "cadm"
        ELSE IF has(<<"progress", "report">>) THEN "cadm"
        ELSE IF has(<<"annual", "report">>) THEN "cadm"
        ELSE "c"

\* The if/elif chain of classify_docs, in its order.
HeuristicClass(maintitle) ==
    LET t == lower(maintitle)
        has(p) == Contains(t, p)
    IN  IF has(<<"working", "draft">>) THEN "cpub"
        ELSE IF has(<<"committee", "draft">>) THEN "cpub"
        ELSE IF has(<<"editor's", "report">>) THEN "cpub"
        ELSE IF has(<<"editor", "report">>) THEN "cpub"
        ELSE IF has(<<"editor", "progress", "report">>) THEN "cpub"
        ELSE IF has(<<"dts", "draft">>) THEN "cpub"
        ELSE IF has(<<"revision", "draft">>) THEN "cpub"
        ELSE IF has(<<"dis", "draft">>) THEN "cpub"
        ELSE IF has(<<"examples", "of", "undefined", "behavior">>) THEN "cpub"
        ELSE IF has(<<"ts", "proposal">>) THEN "cpub"
        ELSE IF has(<<"generalized", "function", "calls">>) THEN "cpub"
        ELSE IF has(<<"compendium">>) THEN "cpub"
        ELSE IF has(<<"cr", "summary">>) THEN "cpub"
        ELSE IF has(<<"clarification", "request", "summary">>) THEN "cpub"
        ELSE IF has(<<"dr", "report">>) THEN "cpub"
        ELSE IF has(<<"defect", "report", "summary">>) THEN "cpub"
        ELSE IF has(<<"thread-based", "parallelism">>) THEN "cpub"
        ELSE IF has(<<"latex">>) THEN "cpub"
        ELSE IF has(<<"dts", "17961">>) THEN "cpub"
        ELSE IF has(<<"wdtr">>) THEN "cpub"
        ELSE IF has(<<"issue", "log">>) THEN "cpub"
        ELSE IF has(<<"educational", "undefined", "behavior">>) THEN "cpub"
        ELSE IF has(<<"fp", "teleconference">>) /\ has(<<"agenda">>)
             THEN "cfptca"
        ELSE IF has(<<"c", "floating", "point", "study", "group",
                      "teleconference">>) THEN "cfptca"
        ELSE IF has(<<"fp", "teleconference">>)
                /\ (has(<<"minutes">>) \/ has(<<"notes">>)) THEN "cfptcm"
        ELSE IF has(<<"fp", "meeting", "minutes">>) THEN "cfptcm"
        ELSE IF has(<<"agenda">>) THEN "cma"
        ELSE IF has(<<"minutes">>) THEN "cmm"
        ELSE IF has(<<"agneda">>) THEN "cma"
        ELSE IF has(<<"venue">>) THEN "cm"
        ELSE IF has(<<"invitation">>) THEN "cm"
        ELSE IF has(<<"meeting", "information">>) THEN "cm"
        ELSE IF has(<<"hotel">>) THEN "cm"
        ELSE IF has(<<"charter">>) THEN "cadm"
        ELSE IF has(<<"schedule">>) THEN "cadm"
        ELSE IF has(<<"liaison", "report">>) THEN "cadm"
        ELSE IF has(<<"liaison", "statement">>) THEN "cadm"
        ELSE IF has(<<"compat", "teleconference">>) THEN "cadm"
        ELSE IF has(<<"omnibus">>) THEN "cadm"
        ELSE IF has(<<"business", "plan">>) THEN "cadm"
        ELSE IF has(<<"standing", "document">>) THEN "cadm"
        ELSE IF has(<<"misra">>) THEN "cadm"
        ELSE IF has(<<"call", "for">>) THEN "cadm"
        ELSE IF has(<<"progress", "report">>) THEN "cadm"
        ELSE IF has(<<"annual", "report">>) THEN "cadm"
        ELSE "c"

\* Record numbers of the modelled logs, as written in the log.
N998 == <<"9", "9", "8">>
N999 == <<"9", "9", "9">>
N1000 == <<"1", "0", "0", "0">>
N1001 == <<"1", "0", "0", "1">>
N3118 == <<"3", "1", "1", "8">>
N3160 == <<"3", "1", "6", "0">>
N3216 == <<"3", "2", "1", "6">>
N2047 == <<"2", "0", "4", "7">>
N2057 == <<"2", "0", "5", "7">>
N3219 == <<"3", "2", "1", "9">>
N3700 == <<"3", "7", "0", "0">>

\* OVERRIDE_CLASS, its entries for the record numbers above.
OVERRIDE_CLASS == [n \in {N998, N3118} |-> IF n = N998 THEN "cpub" ELSE "cadm"]

\* The override applied only where the heuristics found no class of their
\* own.
ClassOfOverrideLast(nnum, maintitle) ==
    IF HeuristicClass(maintitle) = "c" /\ nnum \in DOMAIN OVERRIDE_CLASS
    THEN OVERRIDE_CLASS[nnum]
    ELSE HeuristicClass(maintitle)

\* The class classify_docs gives a record: the heuristic class, replaced by
\* the entry of OVERRIDE_CLASS when there is one.
ClassOf(nnum, maintitle) ==
    IF nnum \in DOMAIN OVERRIDE_CLASS
    THEN OVERRIDE_CLASS[nnum]
    ELSE HeuristicClass(maintitle)

----------------------------------------------------------------------------
(* get_ndoc_data: one line of the log.  A line is modelled after the split *)
(* of the log at <br>: its layout, its number, whether its text is         *)
(* 'Not assigned.', the text from the date on (date and following white    *)
(* space as characters), and the author and title that follow.             *)

\* An exception: its message, the text the message carries (a line, the
\* rest of a line, a key, a record number) and the function that raises it.
Err(msg, arg, at) == [msg |-> msg, arg |-> arg, at |-> at]
NoErr == Err("none", <<>>, "none")

\* The text of a line after its number: what "line" is from line 81 on.
Rest(line) == [date |-> line.date, author |-> line.author, title |-> line.title]

\* The exception of the date part of a line: ValueError with the rest of
\* the line, or the KeyError of months[m.group(2)] with the key.
DateError(kind, line) ==
    IF kind = "KeyError"
    THEN Err("KeyError", <<SubSeq(line.date, 4, 6)>>, "get_ndoc_data")
    ELSE Err(kind, <<Rest(line)>>, "get_ndoc_data")
NoRecords == [n \in {} |-> 0]
NoDocs == <<>>
Unset == "unset"

\* The record get_ndoc_data stores for a line, with the keys the later
\* stages add still unset (convert_doc: <<>>, then <<TRUE>> or <<FALSE>>;
\* cdoc_rev: 0; cid and cpub_edition: <<>>).  The link and the meetings of
\* a record only pass through to the output and are left out.
NewRecord(date, author, title) ==
    [date |-> date, author |-> author, title |-> title,
     group |-> {}, maintitle |-> <<>>, auxtitle |-> NoAux, class |-> Unset,
     convert_doc |-> <<>>, cdoc_rev |-> 0, cid |-> <<>>,
     cpub_edition |-> <<>>]

\* ExtractLine without the duplicate test: a later line replaces the record.
ExtractLineNoDuplicateTest(d, ord, line) ==
    IF line.layout \notin {"nolink", "link"}
    THEN [data |-> d, order |-> ord,
          err |-> Err("could not parse line", <<line>>, "get_ndoc_data")]
    ELSE IF ~line.assigned
    THEN [data |-> d, order |-> ord, err |-> NoErr]
    ELSE LET parsed == ParseDate(line.date)
         IN  IF parsed.kind # "ok"
             THEN [data |-> d, order |-> ord,
                   err |-> DateError(parsed.kind, line)]
             ELSE [data |-> [n \in DOMAIN d \cup {line.nnum} |->
                                IF n = line.nnum
                                THEN NewRecord(parsed.date, line.author,
                                               line.title)
                                ELSE d[n]],
                   order |-> IF line.nnum \in DOMAIN d THEN ord
                             ELSE Append(ord, line.nnum),
                   err |-> NoErr]

\* The body of the loop of get_ndoc_data for one line: d and ord are the
\* mapping and its insertion order so far.
ExtractLine(d, ord, line) ==
    IF line.layout \notin {"nolink", "link"}
    THEN [data |-> d, order |-> ord,
          err |-> Err("could not parse line", <<line>>, "get_ndoc_data")]
    ELSE IF ~line.assigned
    THEN [data |-> d, order |-> ord, err |-> NoErr]
    ELSE LET parsed == ParseDate(line.date)
         IN  IF parsed.kind # "ok"
             THEN [data |-> d, order |-> ord,
                   err |-> DateError(parsed.kind, line)]
             ELSE IF line.nnum \in DOMAIN d
             THEN [data |-> d, order |-> ord,
                   err |-> Err("duplicate", line.nnum, "get_ndoc_data")]
             ELSE [data |-> [n \in DOMAIN d \cup {line.nnum} |->
                                IF n = line.nnum
                                THEN NewRecord(parsed.date, line.author,
                                               line.title)
                                ELSE d[n]],
                   order |-> Append(ord, line.nnum),
                   err |-> NoErr]

\* get_ndoc_data on a whole log: the lines in order, up to the first error.
RECURSIVE ExtractFrom(_, _, _)
ExtractFrom(d, ord, ls) ==
    IF ls = <<>> THEN [data |-> d, order |-> ord, err |-> NoErr]
    ELSE LET r == ExtractLine(d, ord, Head(ls))
         IN  IF r.err # NoErr THEN r
             ELSE ExtractFrom(r.data, r.order, Tail(ls))

get_ndoc_data(ls) == ExtractFrom(NoRecords, <<>>, ls)

----------------------------------------------------------------------------
(* classify_docs.                                                          *)

\* REMAP_TITLE, its entries for the titles of the modelled logs.
REMAP_TITLE ==
    [t \in {<<"The", "Big", "Array", "Size", "Survey">>,
            <<"The", "C", "Standard", "Charter">>,
            <<"Composite", "types">>} |->
        CASE t = <<"The", "Big", "Array", "Size", "Survey">> ->
                 <<"Big", "Array", "Size", "Survey">>
          [] t = <<"The", "C", "Standard", "Charter">> ->
                 <<"The", "C", "Standard", "charter">>
          [] t = <<"Composite", "types">> -> <<"Composite", "Types">>]

N3141 == <<"3", "1", "4", "1">>

\* OVERRIDE_GROUP_TITLE
OVERRIDE_GROUP_TITLE ==
    [n \in {N3141} |-> <<"Composite", "types", "2023">>]

Eligible == {"c", "cadm"}

\* The grouping key without OVERRIDE_GROUP_TITLE.
GroupTitleNoOverride(nnum, ndata) ==
    IF ndata.maintitle \in DOMAIN REMAP_TITLE
    THEN REMAP_TITLE[ndata.maintitle]
    ELSE ndata.maintitle

\* The grouping key of a record: its main title, remapped, then overridden.
GroupTitle(nnum, ndata) ==
    IF nnum \in DOMAIN OVERRIDE_GROUP_TITLE
    THEN OVERRIDE_GROUP_TITLE[nnum]
    ELSE IF ndata.maintitle \in DOMAIN REMAP_TITLE
    THEN REMAP_TITLE[ndata.maintitle]
    ELSE ndata.maintitle

\* The first loop of classify_docs: group, maintitle, auxtitle and class of
\* every record.
ClassifyRecords(d) ==
    [n \in DOMAIN d |->
        [d[n] EXCEPT !.group = {n},
                     !.maintitle = MainTitle(d[n].title),
                     !.auxtitle = AuxTitle(d[n].title),
                     !.class = ClassOf(n, MainTitle(d[n].title))]]

\* by_title[t] at the end of the first loop.
by_title(d, t) ==
    {n \in DOMAIN d : d[n].class \in Eligible /\ GroupTitle(n, d[n]) = t}

\* The second loop: documents with the same main title are grouped.
GroupByTitle(d) ==
    [n \in DOMAIN d |->
        IF d[n].class \in Eligible
        THEN [d[n] EXCEPT !.group = @ \cup by_title(d, GroupTitle(n, d[n]))]
        ELSE d[n]]

\* UpdateStep with the union propagated to the updated record only, not to
\* every member of the merged group.
UpdateStepPairOnly(st, nnum) ==
    LET d == st.data
        ndata == d[nnum]
    IN  IF ndata.class \notin Eligible THEN st
        ELSE IF ndata.auxtitle = NoAux THEN st
        ELSE IF ~HasUpdatesRef(ndata.auxtitle) THEN st
        ELSE LET onum == UpdatesRef(ndata.auxtitle)
             IN  IF onum \in ndata.group THEN st
                 ELSE IF onum \notin DOMAIN d
                 THEN [data |-> d, changed |-> TRUE,
                       err |-> Err("KeyError", onum, "classify_docs")]
                 ELSE LET g == ndata.group \cup d[onum].group
                      IN  [data |->
                               [n \in DOMAIN d |->
                                   IF n \in {nnum, onum}
                                   THEN [d[n] EXCEPT !.group = g]
                                   ELSE d[n]],
                           changed |-> TRUE,
                           err |-> NoErr]

\* UpdateStep absorbing the updated record alone, not its current group.
UpdateStepNoAbsorb(st, nnum) ==
    LET d == st.data
        ndata == d[nnum]
    IN  IF ndata.class \notin Eligible THEN st
        ELSE IF ndata.auxtitle = NoAux THEN st
        ELSE IF ~HasUpdatesRef(ndata.auxtitle) THEN st
        ELSE LET onum == UpdatesRef(ndata.auxtitle)
             IN  IF onum \in ndata.group THEN st
                 ELSE IF onum \notin DOMAIN d
                 THEN [data |-> d, changed |-> TRUE,
                       err |-> Err("KeyError", onum, "classify_docs")]
                 ELSE LET g == ndata.group \cup {onum}
                      IN  [data |->
                               [n \in DOMAIN d |->
                                   IF n = nnum
                                   THEN [d[n] EXCEPT !.group = g]
                                   ELSE IF n \in g /\ d[n].group # g
                                   THEN [d[n] EXCEPT !.group = @ \cup g]
                                   ELSE d[n]],
                           changed |-> TRUE,
                           err |-> NoErr]

\* UpdateStep without the test of the class of the record that refers.
UpdateStepAnyClass(st, nnum) ==
    LET d == st.data
        ndata == d[nnum]
    IN  IF ndata.auxtitle = NoAux THEN st
        ELSE IF ~HasUpdatesRef(ndata.auxtitle) THEN st
        ELSE LET onum == UpdatesRef(ndata.auxtitle)
             IN  IF onum \in ndata.group THEN st
                 ELSE IF onum \notin DOMAIN d
                 THEN [data |-> d, changed |-> TRUE,
                       err |-> Err("KeyError", onum, "classify_docs")]
                 ELSE LET g == ndata.group \cup d[onum].group
                      IN  [data |->
                               [n \in DOMAIN d |->
                                   IF n = nnum
                                   THEN [d[n] EXCEPT !.group = g]
                                   ELSE IF n \in g /\ d[n].group # g
                                   THEN [d[n] EXCEPT !.group = @ \cup g]
                                   ELSE d[n]],
                           changed |-> TRUE,
                           err |-> NoErr]

\* UpdateStep without the test "onum not in ndata['group']": every
\* reference found sets changed.
UpdateStepNoMemberTest(st, nnum) ==
    LET d == st.data
        ndata == d[nnum]
    IN  IF ndata.class \notin Eligible THEN st
        ELSE IF ndata.auxtitle = NoAux THEN st
        ELSE IF ~HasUpdatesRef(ndata.auxtitle) THEN st
        ELSE LET onum == UpdatesRef(ndata.auxtitle)
             IN  IF onum \notin DOMAIN d
                 THEN [data |-> d, changed |-> TRUE,
                       err |-> Err("KeyError", onum, "classify_docs")]
                 ELSE LET g == ndata.group \cup d[onum].group
                      IN  [data |->
                               [n \in DOMAIN d |->
                                   IF n = nnum
                                   THEN [d[n] EXCEPT !.group = g]
                                   ELSE IF n \in g /\ d[n].group # g
                                   THEN [d[n] EXCEPT !.group = @ \cup g]
                                   ELSE d[n]],
                           changed |-> TRUE,
                           err |-> NoErr]

\* UpdateStep with a reference to a record the mapping lacks passed over.
UpdateStepSkipMissing(st, nnum) ==
    LET d == st.data
        ndata == d[nnum]
    IN  IF ndata.class \notin Eligible THEN st
        ELSE IF ndata.auxtitle = NoAux THEN st
        ELSE IF ~HasUpdatesRef(ndata.auxtitle) THEN st
        ELSE LET onum == UpdatesRef(ndata.auxtitle)
             IN  IF onum \in ndata.group THEN st
                 ELSE IF onum \notin DOMAIN d THEN st
                 ELSE LET g == ndata.group \cup d[onum].group
                      IN  [data |->
                               [n \in DOMAIN d |->
                                   IF n = nnum
                                   THEN [d[n] EXCEPT !.group = g]
                                   ELSE IF n \in g /\ d[n].group # g
                                   THEN [d[n] EXCEPT !.group = @ \cup g]
                                   ELSE d[n]],
                           changed |-> TRUE,
                           err |-> NoErr]

\* The body of the for loop inside "while changed", for record nnum.
\* st is [data, changed, err].
UpdateStep(st, nnum) ==
    LET d == st.data
        ndata == d[nnum]
    IN  IF ndata.class \notin Eligible THEN st
        ELSE IF ndata.auxtitle = NoAux THEN st
        ELSE IF ~HasUpdatesRef(ndata.auxtitle) THEN st
        ELSE LET onum == UpdatesRef(ndata.auxtitle)
             IN  IF onum \in ndata.group THEN st
                 ELSE IF onum \notin DOMAIN d
                 THEN [data |-> d, changed |-> TRUE,
                       err |-> Err("KeyError", onum, "classify_docs")]
                 ELSE LET g == ndata.group \cup d[onum].group
                      IN  [data |->
                               [n \in DOMAIN d |->
                                   IF n = nnum
                                   THEN [d[n] EXCEPT !.group = g]
                                   ELSE IF n \in g /\ d[n].group # g
                                   THEN [d[n] EXCEPT !.group = @ \cup g]
                                   ELSE d[n]],
                           changed |-> TRUE,
                           err |-> NoErr]

\* One execution of the for loop, over the records in mapping order.
RECURSIVE UpdatesFrom(_, _)
UpdatesFrom(st, ord) ==
    IF ord = <<>> \/ st.err # NoErr THEN st
    ELSE UpdatesFrom(UpdateStep(st, Head(ord)), Tail(ord))

UpdatesPass(d, ord) ==
    UpdatesFrom([data |-> d, changed |-> FALSE, err |-> NoErr], ord)

\* The while loop: passes are repeated until one changes nothing.
RECURSIVE UpdatesLoop(_, _)
UpdatesLoop(d, ord) ==
    LET r == UpdatesPass(d, ord)
    IN  IF r.err # NoErr \/ ~r.changed THEN r
        ELSE UpdatesLoop(r.data, ord)

classify_docs(d, ord) ==
    UpdatesLoop(GroupByTitle(ClassifyRecords(d)), ord)

----------------------------------------------------------------------------
(* generate_autonum_docs.                                                  *)

\* max(int(n) for n in group)
MaxInt(group) ==
    CHOOSE v \in {int(n) : n \in group} :
        \A w \in {int(n) : n \in group} : w <= v

\* Python's < on the tuples (date, int).
KeyLess(a, b) == StrLess(a[1], b[1]) \/ (a[1] = b[1] /\ a[2] < b[2])

\* The sort key without the record number: the earliest date alone.
SortKeyDateOnly(d, group) ==
    LET dates == {d[n].date : n \in group}
    IN  <<CHOOSE k \in dates : \A other \in dates : ~StrLess(other, k), 0>>

\* The sort key as the pair of two separate minima: the earliest date of
\* the group and the smallest record number of the group.
SortKeyMinNumber(d, group) ==
    LET dates == {d[n].date : n \in group}
        nums == {int(n) : n \in group}
    IN  <<CHOOSE k \in dates : \A other \in dates : ~StrLess(other, k),
          CHOOSE k \in nums : \A other \in nums : k <= other>>

\* min((data[n]['date'], int(n)) for n in group)
SortKey(d, group) ==
    LET keys == {<<d[n].date, int(n)>> : n \in group}
    IN  CHOOSE k \in keys : \A other \in keys : ~KeyLess(other, k)

\* The order of two record numbers as strings.
NumLessAsStr(n, m) == StrLess(n, m)

\* The opposite order of two record numbers.
NumGreater(n, m) == int(n) > int(m)

\* The order of two record numbers under key=int.
NumLess(n, m) == int(n) < int(m)

\* sorted(group, key=int).  Numbers with equal int() do not occur together
\* in the modelled logs, so the order is determined.
RECURSIVE SortedNums(_)
SortedNums(group) ==
    IF group = {} THEN <<>>
    ELSE LET first == CHOOSE n \in group :
                          \A m \in group : ~NumLess(m, n)
         IN  <<first>> \o SortedNums(group \ {first})

\* doc_class.upper()
upper(cls) ==
    CASE cls = "c" -> "C"
      [] cls = "cadm" -> "CADM"
      [] cls = "cpub" -> "CPUB"
      [] cls = "cm" -> "CM"
      [] cls = "cma" -> "CMA"
      [] cls = "cmm" -> "CMM"
      [] cls = "cfptca" -> "CFPTCA"
      [] cls = "cfptcm" -> "CFPTCM"

\* The text of an identifier: the model keeps an identifier as the
\* arguments of its format ('%s%d', 'CPUB%de%d', '%s%sx%d', '%sr%d', ...),
\* letters and numbers in turn, and this is the string the format makes.
RECURSIVE IdText(_)
IdText(id) ==
    LET letters(t) ==
            CASE t = "C" -> <<"C">>
              [] t = "CADM" -> <<"C", "A", "D", "M">>
              [] t = "CPUB" -> <<"C", "P", "U", "B">>
              [] t = "CPUBX" -> <<"C", "P", "U", "B", "X">>
              [] t = "CM" -> <<"C", "M">>
              [] t = "CMA" -> <<"C", "M", "A">>
              [] t = "CMM" -> <<"C", "M", "M">>
              [] t = "CFPTCA" -> <<"C", "F", "P", "T", "C", "A">>
              [] t = "CFPTCM" -> <<"C", "F", "P", "T", "C", "M">>
              [] OTHER -> <<t>>
    IN  IF id = <<>> THEN <<>>
        ELSE letters(id[1]) \o str(id[2]) \o IdText(SubSeq(id, 3, Len(id)))

\* SelectStep with the decision taken from any member of the group: a
\* member after the cutoff or in the include set selects the group.
SelectStepAnyMember(st, nnum, doc_class, cutoff_date, extra_exclude, extra_include) ==
    LET d == st.data
        ndata == d[nnum]
        convert_doc == \E n \in ndata.group :
                           (StrGE(d[n].date, cutoff_date)
                            /\ n \notin extra_exclude)
                           \/ n \in extra_include
    IN  IF ndata.class # doc_class THEN st
        ELSE IF int(nnum) # MaxInt(ndata.group) THEN st
        ELSE [data |-> [n \in DOMAIN d |->
                           IF n \in ndata.group
                           THEN [d[n] EXCEPT !.convert_doc = <<convert_doc>>]
                           ELSE d[n]],
              docs |-> IF convert_doc
                       THEN Append(st.docs,
                                   [sortkey |-> SortKey(d, ndata.group),
                                    title |-> ndata.maintitle,
                                    author |-> ndata.author,
                                    nums |-> SortedNums(ndata.group),
                                    id |-> <<>>])
                       ELSE st.docs]

\* The body of the first loop of generate_autonum_docs for record nnum.
\* st is [data, docs].
SelectStep(st, nnum, doc_class, cutoff_date, extra_exclude, extra_include) ==
    LET d == st.data
        ndata == d[nnum]
        convert_doc == (StrGE(ndata.date, cutoff_date)
                        /\ nnum \notin extra_exclude)
                       \/ nnum \in extra_include
    IN  IF ndata.class # doc_class THEN st
        ELSE IF int(nnum) # MaxInt(ndata.group) THEN st
        ELSE [data |-> [n \in DOMAIN d |->
                           IF n \in ndata.group
                           THEN [d[n] EXCEPT !.convert_doc = <<convert_doc>>]
                           ELSE d[n]],
              docs |-> IF convert_doc
                       THEN Append(st.docs,
                                   [sortkey |-> SortKey(d, ndata.group),
                                    title |-> ndata.maintitle,
                                    author |-> ndata.author,
                                    nums |-> SortedNums(ndata.group),
                                    id |-> <<>>])
                       ELSE st.docs]

RECURSIVE SelectFrom(_, _, _, _, _, _)
SelectFrom(st, ord, doc_class, cutoff_date, extra_exclude, extra_include) ==
    IF ord = <<>> THEN st
    ELSE SelectFrom(SelectStep(st, Head(ord), doc_class, cutoff_date,
                               extra_exclude, extra_include),
                    Tail(ord), doc_class, cutoff_date, extra_exclude,
                    extra_include)

\* docs.sort(key=lambda x: x['sortkey']): a stable sort, so documents with
\* equal keys keep the order in which the loop appended them.
RECURSIVE SortDocs(_)
SortDocs(docs) ==
    IF docs = <<>> THEN <<>>
    ELSE LET rest == SortDocs(SubSeq(docs, 1, Len(docs) - 1))
             x == docs[Len(docs)]
             \* x goes after every element that is not greater than it.
             k == Cardinality({i \in 1..Len(rest) :
                                  ~KeyLess(x.sortkey, rest[i].sortkey)})
         IN  SubSeq(rest, 1, k) \o <<x>> \o SubSeq(rest, k + 1, Len(rest))

\* NumberDocs with start_num for every document.
NumberDocsSameNumber(docs, doc_class, start_num) ==
    [i \in 1..Len(docs) |->
        [docs[i] EXCEPT !.id = <<upper(doc_class), start_num>>]]

\* The last loop: identifiers in sorted order from start_num.
NumberDocs(docs, doc_class, start_num) ==
    [i \in 1..Len(docs) |->
        [docs[i] EXCEPT !.id = <<upper(doc_class), start_num + i - 1>>]]

\* data[num]['cdoc-rev'] = rev, for the documents in order.
RECURSIVE AssignRevs(_, _)
AssignRevs(d, docs) ==
    IF docs = <<>> THEN d
    ELSE LET nums == Head(docs).nums
             d1 == [n \in DOMAIN d |->
                       IF \E r \in 1..Len(nums) : nums[r] = n
                       THEN [d[n] EXCEPT !.cdoc_rev =
                                CHOOSE r \in 1..Len(nums) : nums[r] = n]
                       ELSE d[n]]
         IN  AssignRevs(d1, Tail(docs))

generate_autonum_docs(d, ord, doc_class, start_num, cutoff_date, extra_exclude, extra_include) ==
    LET sel == SelectFrom([data |-> d, docs |-> <<>>], ord, doc_class,
                          cutoff_date, extra_exclude, extra_include)
        docs == NumberDocs(SortDocs(sel.docs), doc_class, start_num)
    IN  [data |-> AssignRevs(sel.data, docs), docs |-> docs]

----------------------------------------------------------------------------
(* convert_docs.                                                           *)

\* The metadata.json of one document.
DocJson(d, doc) ==
    [id |-> doc.id, author |-> doc.author, title |-> doc.title,
     revisions |->
        [i \in 1..Len(doc.nums) |->
            LET ndata == d[doc.nums[i]]
            IN  [rev_id |-> <<"r", ndata.cdoc_rev>>,
                 id |-> doc.id \o <<"r", ndata.cdoc_rev>>,
                 doc_id |-> doc.id,
                 author |-> ndata.author,
                 title |-> ndata.title,
                 date |-> ndata.date,
                 ext_id |-> doc.nums[i]]]]

\* st is [data, out]: each document's revisions get their cid, and its
\* metadata.json is written.
RECURSIVE convert_docs(_, _, _)
convert_docs(st, doc_class, doc_list) ==
    IF doc_list = <<>> THEN st
    ELSE LET doc == Head(doc_list)
             d == st.data
             json == DocJson(d, doc)
             d1 == [n \in DOMAIN d |->
                       IF \E i \in 1..Len(doc.nums) : doc.nums[i] = n
                       THEN [d[n] EXCEPT !.cid =
                                doc.id \o <<"r", d[n].cdoc_rev>>]
                       ELSE d[n]]
         IN  convert_docs([data |-> d1,
                           out |-> Append(st.out,
                                          [dir |-> doc_class, json |-> json])],
                          doc_class, Tail(doc_list))

----------------------------------------------------------------------------
(* generate_cpub_docs and convert_cpub_docs.                               *)

\* CPUB_DOCS: the catalog of publications, title and editions of each; the
\* descriptions and edition titles only pass through to the output and
\* are left out, and the long dash of the titles is written "-".  An
\* edition without a cutoff has cutoff <<>>.
CPUB_DOCS ==
    <<[title |-> "Programming languages - C",
       editions |-> <<[number |-> 0, cutoff |-> <<>>],
                      [number |-> 1, cutoff |-> <<>>],
                      [number |-> 2, cutoff |-> <<"1", "9", "9", "1", "-", "0", "1", "-", "0", "1">>],
                      [number |-> 3, cutoff |-> <<"2", "0", "0", "0", "-", "0", "1", "-", "0", "1">>],
                      [number |-> 4, cutoff |-> <<"2", "0", "1", "2", "-", "0", "1", "-", "0", "1">>],
                      [number |-> 5, cutoff |-> <<"2", "0", "1", "8", "-", "0", "8", "-", "0", "1">>],
                      [number |-> 6, cutoff |-> <<"2", "0", "2", "4", "-", "0", "2", "-", "2", "2">>]>>],
      [title |-> "Rationale for Programming languages - C",
       editions |-> <<[number |-> 0, cutoff |-> <<>>],
                      [number |-> 2, cutoff |-> <<"1", "9", "9", "5", "-", "0", "1", "-", "0", "1">>]>>],
      [title |-> "Amendment 1: C Integrity",
       editions |-> <<[number |-> 1, cutoff |-> <<>>]>>],
      [title |-> "C90 issue log",
       editions |-> <<[number |-> 1, cutoff |-> <<>>]>>],
      [title |-> "C90 Technical Corrigendum 1",
       editions |-> <<[number |-> 1, cutoff |-> <<>>],
                      [number |-> 2, cutoff |-> <<"1", "9", "9", "6", "-", "0", "1", "-", "0", "1">>]>>],
      [title |-> "Numerical C Extensions",
       editions |-> <<[number |-> 1, cutoff |-> <<>>]>>],
      [title |-> "C90 Technical Corrigendum 2",
       editions |-> <<[number |-> 1, cutoff |-> <<>>]>>],
      [title |-> "Programming languages - C - Extensions to support embedded processors",
       editions |-> <<[number |-> 1, cutoff |-> <<>>],
                      [number |-> 2, cutoff |-> <<"2", "0", "0", "5", "-", "0", "1", "-", "0", "1">>]>>],
      [title |-> "C99 issue log",
       editions |-> <<[number |-> 1, cutoff |-> <<>>]>>],
      [title |-> "C99 Technical Corrigendum 1",
       editions |-> <<[number |-> 1, cutoff |-> <<>>]>>],
      [title |-> "Extensions for the programming language C to support new character data types",
       editions |-> <<[number |-> 1, cutoff |-> <<>>]>>],
      [title |-> "Extension for the programming language C to support decimal floating-point arithmetic",
       editions |-> <<[number |-> 1, cutoff |-> <<>>]>>],
      [title |-> "Extensions to the C library - Part 1: Bounds-checking interfaces",
       editions |-> <<[number |-> 1, cutoff |-> <<>>]>>],
      [title |-> "Extensions to the C Library to support mathematical special functions",
       editions |-> <<[number |-> 1, cutoff |-> <<>>]>>],
      [title |-> "C99 Technical Corrigendum 2",
       editions |-> <<[number |-> 1, cutoff |-> <<>>]>>],
      [title |-> "Embedded C (2004) issue log",
       editions |-> <<[number |-> 1, cutoff |-> <<>>]>>],
      [title |-> "Extensions to the C library - Part 2: Dynamic Allocation Functions",
       editions |-> <<[number |-> 1, cutoff |-> <<>>]>>],
      [title |-> "Rationale for Extensions to the C library - Part 1: Bounds-checking interfaces",
       editions |-> <<[number |-> 1, cutoff |-> <<>>]>>],
      [title |-> "Rationale for Extension for the programming language C to support decimal floating-point arithmetic",
       editions |-> <<[number |-> 1, cutoff |-> <<>>]>>],
      [title |-> "C99 Technical Corrigendum 3",
       editions |-> <<[number |-> 1, cutoff |-> <<>>]>>],
      [title |-> "Rationale for Extensions to the C Library to support mathematical special functions",
       editions |-> <<[number |-> 1, cutoff |-> <<>>]>>],
      [title |-> "C secure coding rules",
       editions |-> <<[number |-> 1, cutoff |-> <<>>],
                      [number |-> 2, cutoff |-> <<"2", "0", "1", "4", "-", "0", "1", "-", "0", "1">>]>>],
      [title |-> "C11/C17 issue log",
       editions |-> <<[number |-> 1, cutoff |-> <<>>]>>],
      [title |-> "C11 Technical Corrigendum 1",
       editions |-> <<[number |-> 1, cutoff |-> <<>>]>>],
      [title |-> "Floating-point extensions for C - Part 1: Binary floating-point arithmetic",
       editions |-> <<[number |-> 1, cutoff |-> <<>>]>>],
      [title |-> "Floating-point extensions for C - Part 2: Decimal floating-point arithmetic",
       editions |-> <<[number |-> 1, cutoff |-> <<>>],
                      [number |-> 2, cutoff |-> <<"2", "0", "1", "5", "-", "0", "3", "-", "0", "1">>]>>],
      [title |-> "Floating-point extensions for C - Part 3: Interchange and extended types",
       editions |-> <<[number |-> 1, cutoff |-> <<>>]>>],
      [title |-> "Floating-point extensions for C - Part 4: Supplementary functions",
       editions |-> <<[number |-> 1, cutoff |-> <<>>],
                      [number |-> 2, cutoff |-> <<"2", "0", "1", "6", "-", "0", "1", "-", "0", "1">>]>>],
      [title |-> "C Secure Coding Rules issue log",
       editions |-> <<[number |-> 1, cutoff |-> <<>>]>>],
      [title |-> "Programming language C - Extensions for parallel programming - Part 1: Thread-based parallelism",
       editions |-> <<[number |-> 1, cutoff |-> <<>>]>>],
      [title |-> "Floating-point extensions for C - Part 5: Supplementary attributes",
       editions |-> <<[number |-> 1, cutoff |-> <<>>],
                      [number |-> 2, cutoff |-> <<"2", "0", "1", "7", "-", "0", "1", "-", "0", "1">>]>>],
      [title |-> "C Secure Coding Rules (2013) Technical Corrigendum 1",
       editions |-> <<[number |-> 1, cutoff |-> <<>>]>>],
      [title |-> "Floating-point extensions for C (2014-2016) issue log",
       editions |-> <<[number |-> 1, cutoff |-> <<>>]>>],
      [title |-> "Programming languages - C - A provenance-aware memory object model for C",
       editions |-> <<[number |-> 1, cutoff |-> <<>>]>>],
      [title |-> "C Extensions to Support Generalized Function Calls",
       editions |-> <<[number |-> 1, cutoff |-> <<>>]>>],
      [title |-> "Examples of Undefined Behavior",
       editions |-> <<[number |-> 1, cutoff |-> <<>>]>>],
      [title |-> "Programming Languages - C - defer, a mechanism for general purpose, lexical scope-based undo",
       editions |-> <<[number |-> 1, cutoff |-> <<>>]>>],
      [title |-> "C23 issue log",
       editions |-> <<[number |-> 1, cutoff |-> <<>>]>>],
      [title |-> "Floating-point TS 18661 (C23 version, 2025) issue log",
       editions |-> <<[number |-> 1, cutoff |-> <<>>]>>],
      [title |-> "Undefined Behavior in the C Programming Language",
       editions |-> <<[number |-> 1, cutoff |-> <<>>]>>]>>

\* The catalog positions the assignment of publications names.
CPUB_STD == 1
CPUB_RAT == 2
CPUB_AMD1 == 3
CPUB_C90_ISSUES == 4
CPUB_EMBC == 8
CPUB_CHAR == 11
CPUB_DFP == 12
CPUB_BOUNDS == 13
CPUB_SPECMATH == 14
CPUB_EMBC_ISSUES == 16
CPUB_DYN == 17
CPUB_RAT_BOUNDS == 18
CPUB_RAT_DFP == 19
CPUB_RAT_SPECMATH == 21
CPUB_CSCR == 22
CPUB_C11_ISSUES == 23
CPUB_FP1 == 25
CPUB_FP2 == 26
CPUB_FP3 == 27
CPUB_FP4 == 28
CPUB_CSCR_ISSUES == 29
CPUB_CPLEX == 30
CPUB_FP5 == 31
CPUB_FP_ISSUES == 33
CPUB_PROV == 34
CPUB_FUNC == 35
CPUB_EXUB == 36
CPUB_DEFER == 37
CPUB_C23_ISSUES == 38
CPUB_FP_C23_ISSUES == 39
CPUB_EDUC_UB == 40

\* EditionByDate with the first edition whose cutoff the date has reached.
EditionByDateFirst(pub, date) ==
    LET eds == CPUB_DOCS[pub].editions
        reached == {i \in 1..Len(eds) :
                       eds[i].cutoff # <<>> /\ StrGE(date, eds[i].cutoff)}
    IN  IF reached = {} THEN eds[1].number
        ELSE eds[CHOOSE i \in reached : \A j \in reached : i <= j].number

\* The edition of publication pub for a record of the date: the first
\* edition, replaced in turn by every edition whose cutoff the date has
\* reached, so that the last of them wins.
EditionByDate(pub, date) ==
    LET eds == CPUB_DOCS[pub].editions
        reached == {i \in 1..Len(eds) :
                       eds[i].cutoff # <<>> /\ StrGE(date, eds[i].cutoff)}
    IN  IF reached = {} THEN eds[1].number
        ELSE eds[CHOOSE i \in reached : \A j \in reached : j <= i].number

\* The first loop of generate_cpub_docs for the cpub record nnum: its
\* publication, its edition and whether it is an auxiliary document.  Of
\* OVERRIDE_CPUB and OVERRIDE_CPUB_EDITION the entries for the record
\* numbers of the modelled logs are kept; OVERRIDE_CPUB_AUX has none.
CpubPlace(nnum, ndata) ==
    LET ltitle == lower(ndata.maintitle)
        has(p) == Contains(ltitle, p)
        OVERRIDE_CPUB == [n \in {N998} |-> CPUB_CHAR]
        OVERRIDE_CPUB_EDITION == [n \in {N3219} |-> 5]
        heuristic ==
            IF has(<<"multibyte", "support", "extension">>) THEN CPUB_AMD1
            ELSE IF has(<<"mse">>) THEN CPUB_AMD1
            ELSE IF has(<<"normative", "addendum">>) THEN CPUB_AMD1
            ELSE IF has(<<"rationale">>)
                 THEN IF has(<<"24731">>) THEN CPUB_RAT_BOUNDS
                      ELSE IF has(<<"24732">>) THEN CPUB_RAT_DFP
                      ELSE IF has(<<"24747">>) THEN CPUB_RAT_SPECMATH
                      ELSE CPUB_RAT
            ELSE IF has(<<"defect">>)
                 THEN IF has(<<"18037">>) THEN CPUB_EMBC_ISSUES
                      ELSE IF has(<<"17961">>) \/ has(<<"cscr">>)
                           THEN CPUB_CSCR_ISSUES
                      ELSE IF has(<<"c11">>) THEN CPUB_C11_ISSUES
                      ELSE CPUB_C90_ISSUES
            ELSE IF has(<<"record", "of", "responses">>) THEN CPUB_C90_ISSUES
            ELSE IF has(<<"18037">>) THEN CPUB_EMBC
            ELSE IF has(<<"24731-2">>) \/ has(<<"24731", "part", "ii">>)
                    \/ has(<<"dynamic", "alloc">>) THEN CPUB_DYN
            ELSE IF has(<<"24731">>) THEN CPUB_BOUNDS
            ELSE IF has(<<"24732">>) THEN CPUB_DFP
            ELSE IF has(<<"24747">>) \/ has(<<"special", "math">>)
                 THEN CPUB_SPECMATH
            ELSE IF has(<<"17961">>) \/ has(<<"secure", "coding">>)
                 THEN CPUB_CSCR
            ELSE IF has(<<"secure">>) \/ has(<<"security">>) THEN CPUB_BOUNDS
            ELSE IF has(<<"parallel">>) \/ has(<<"cplex">>) THEN CPUB_CPLEX
            ELSE IF has(<<"part", "1">>) \/ has(<<"18661-1">>) THEN CPUB_FP1
            ELSE IF has(<<"part", "2">>) \/ has(<<"18661-2">>) THEN CPUB_FP2
            ELSE IF has(<<"part", "3">>) \/ has(<<"18661-3">>) THEN CPUB_FP3
            ELSE IF has(<<"part", "4">>) \/ has(<<"18661-4">>) THEN CPUB_FP4
            ELSE IF has(<<"part", "5">>) \/ has(<<"18661-5">>) THEN CPUB_FP5
            ELSE IF has(<<"decimal">>) THEN CPUB_DFP
            ELSE IF has(<<"provenance">>) \/ has(<<"6010">>) THEN CPUB_PROV
            ELSE IF has(<<"defer">>) THEN CPUB_DEFER
            ELSE IF has(<<"function">>) THEN CPUB_FUNC
            ELSE IF has(<<"educational", "undefined", "behavior">>)
                 THEN CPUB_EDUC_UB
            ELSE IF has(<<"undefined">>) THEN CPUB_EXUB
            ELSE IF has(<<"cscr", "compendium">>) \/ has(<<"cscr", "drs">>)
                    \/ has(<<"rules", "dr">>) THEN CPUB_CSCR_ISSUES
            ELSE IF has(<<"fpe", "compendium">>)
                    \/ has(<<"floating", "point", "extension", "dr">>)
                    \/ has(<<"summary", "for", "fpe">>) THEN CPUB_FP_ISSUES
            ELSE IF has(<<"compendium">>) \/ has(<<"drs">>)
                    \/ has(<<"dr", "report">>)
                    \/ has(<<"request", "summary">>)
                    \/ has(<<"cr", "summary">>) THEN CPUB_C11_ISSUES
            ELSE IF has(<<"c23", "issue", "log">>) THEN CPUB_C23_ISSUES
            ELSE IF has(<<"ts", "18661", "(c23", "version,", "2025\\)",
                          "issue", "log">>) THEN CPUB_FP_C23_ISSUES
            ELSE CPUB_STD
        pub == IF nnum \in DOMAIN OVERRIDE_CPUB
               THEN OVERRIDE_CPUB[nnum] ELSE heuristic
        bydate == EditionByDate(pub, ndata.date)
    IN  [pub |-> pub,
         edition |-> IF nnum \in DOMAIN OVERRIDE_CPUB_EDITION
                     THEN OVERRIDE_CPUB_EDITION[nnum] ELSE bydate,
         is_aux |-> has(<<"editor">>) \/ has(<<"redactor">>)
                    \/ has(<<"cross", "ref">>) \/ has(<<"status">>)]

\* nnums_by_cpub_num[n][e] after the first loop, place being the result of
\* CpubPlace for each cpub record.
CpubNums(place, n, e) ==
    {x \in DOMAIN place :
        place[x].pub = n /\ ~place[x].is_aux /\ place[x].edition = e}

\* CpubDoc with the editions that have no record left out.
CpubDocNoEmptyEdition(place, n) ==
    LET eds == CPUB_DOCS[n].editions
        kept == SelectSeq([j \in 1..Len(eds) |-> eds[j].number],
                          LAMBDA e : CpubNums(place, n, e) # {})
    IN  [id |-> <<"CPUB", n>>,
         title |-> CPUB_DOCS[n].title,
         editions |-> [j \in 1..Len(kept) |->
                          [edition_num |-> kept[j],
                           nums |-> SortedNums(CpubNums(place, n, kept[j]))]]]

\* The second loop: the document of catalog position n.
CpubDoc(place, n) ==
    LET eds == CPUB_DOCS[n].editions
    IN  [id |-> <<"CPUB", n>>,
         title |-> CPUB_DOCS[n].title,
         editions |-> [j \in 1..Len(eds) |->
                          [edition_num |-> eds[j].number,
                           nums |-> SortedNums(CpubNums(place, n,
                                                        eds[j].number))]]]

\* generate_cpub_docs on mapping d iterated in order ord: the documents,
\* the auxiliary documents, the mapping with cdoc_rev and cpub_edition
\* set, or the KeyError of the first record whose edition its publication
\* does not have.
generate_cpub_docs(d, ord) ==
    LET loops(place) ==
            LET has_edition(x) ==
                    \E j \in 1..Len(CPUB_DOCS[place[x].pub].editions) :
                        CPUB_DOCS[place[x].pub].editions[j].number
                            = place[x].edition
                bad == {i \in 1..Len(ord) :
                           /\ ord[i] \in DOMAIN place
                           /\ ~place[ord[i]].is_aux
                           /\ ~has_edition(ord[i])}
                aux == {x \in DOMAIN place : place[x].is_aux}
                before(y, x) ==
                    \/ place[y].pub < place[x].pub
                    \/ place[y].pub = place[x].pub /\ int(y) < int(x)
                \* The auxiliary records by publication, then by number.
                xs == [k \in 1..Cardinality(aux) |->
                          CHOOSE x \in aux :
                              Cardinality({y \in aux : before(y, x)}) = k - 1]
                rev(x) == CHOOSE r \in 1..Cardinality(DOMAIN place) :
                              r = 1 + Cardinality(
                                  {y \in CpubNums(place, place[x].pub,
                                                  place[x].edition) :
                                      int(y) < int(x)})
            IN  IF bad # {}
                THEN [data |-> d, docs |-> NoDocs, xdocs |-> NoDocs,
                      err |-> Err("KeyError",
                                  str(place[ord[CHOOSE i \in bad :
                                          \A j \in bad : i <= j]].edition),
                                  "generate_cpub_docs")]
                ELSE [data |->
                         [x \in DOMAIN d |->
                             IF x \notin DOMAIN place THEN d[x]
                             ELSE IF place[x].is_aux
                             THEN [d[x] EXCEPT
                                      !.cdoc_rev = 1,
                                      !.cpub_edition =
                                          <<"CPUB", place[x].pub, "e",
                                            place[x].edition>>]
                             ELSE [d[x] EXCEPT !.cdoc_rev = rev(x)]],
                      docs |-> [n \in 1..Len(CPUB_DOCS) |->
                                   CpubDoc(place, n)],
                      xdocs |->
                         [k \in 1..Len(xs) |->
                             [id |-> <<"CPUBX", place[xs[k]].pub, "x",
                                       1 + Cardinality({y \in aux :
                                           /\ place[y].pub = place[xs[k]].pub
                                           /\ int(y) < int(xs[k])})>>,
                              author |-> d[xs[k]].author,
                              title |-> d[xs[k]].title,
                              nums |-> <<xs[k]>>]],
                      err |-> NoErr]
    IN  loops([x \in {y \in DOMAIN d : d[y].class = "cpub"} |->
                  CpubPlace(x, d[x])])

\* The metadata.json of one CPUB document.
CpubJson(d, doc) ==
    [id |-> doc.id, title |-> doc.title,
     editions |->
        [j \in 1..Len(doc.editions) |->
            LET e == doc.editions[j]
            IN  [id |-> doc.id \o <<"e", e.edition_num>>,
                 edition_num |-> e.edition_num,
                 revisions |->
                    [i \in 1..Len(e.nums) |->
                        LET ndata == d[e.nums[i]]
                        IN  [rev_id |-> <<"r", ndata.cdoc_rev>>,
                             id |-> doc.id \o <<"e", e.edition_num,
                                                "r", ndata.cdoc_rev>>,
                             doc_id |-> doc.id,
                             edition_id |-> doc.id \o <<"e", e.edition_num>>,
                             edition_num |-> e.edition_num,
                             author |-> ndata.author,
                             title |-> ndata.title,
                             date |-> ndata.date,
                             ext_id |-> e.nums[i]]]]]]

\* convert_cpub_docs: st is [data, out]; the metadata.json of the CPUB
\* documents, then of the CPUBX documents, each revision getting its cid.
convert_cpub_docs(st, doc_list, xdoc_list) ==
    LET d == st.data
        cids == {<<r.ext_id, r.id>> :
                    r \in UNION {UNION {{e.revisions[i] :
                                            i \in 1..Len(e.revisions)} :
                                        e \in {CpubJson(d, doc_list[n]).editions[j] :
                                                  j \in 1..Len(doc_list[n].editions)}} :
                                 n \in 1..Len(doc_list)}}
                \cup {<<xdoc_list[k].nums[1],
                        xdoc_list[k].id \o <<"r", d[xdoc_list[k].nums[1]].cdoc_rev>>>> :
                         k \in 1..Len(xdoc_list)}
        xjson(doc) ==
            [DocJson(d, doc) EXCEPT
                !.revisions =
                    [i \in 1..Len(doc.nums) |->
                        [rev_id |-> @[i].rev_id, id |-> @[i].id,
                         doc_id |-> @[i].doc_id,
                         cpub_edition |-> d[doc.nums[i]].cpub_edition,
                         author |-> @[i].author, title |-> @[i].title,
                         date |-> @[i].date, ext_id |-> @[i].ext_id]]]
    IN  [data |-> [x \in DOMAIN d |->
                      IF \E c \in cids : c[1] = x
                      THEN [d[x] EXCEPT !.cid =
                               (CHOOSE c \in cids : c[1] = x)[2]]
                      ELSE d[x]],
         out |-> st.out
                 \o [n \in 1..Len(doc_list) |->
                        [dir |-> "CPUB", json |-> CpubJson(d, doc_list[n])]]
                 \o [k \in 1..Len(xdoc_list) |->
                        [dir |-> "CPUBX", json |-> xjson(xdoc_list[k])]]]

----------------------------------------------------------------------------
(* generate_meeting_docs.                                                  *)

\* MeetingDate with OVERRIDE_DATE used only when the title and the date give
\* no year or no month.
MeetingDateOverrideLast(nnum, ndata, doc_class) ==
    LET title_words == {ndata.maintitle[i] : i \in 1..Len(ndata.maintitle)}
        word(y) == CASE y = 2003 -> "2003"
                     [] y = 2023 -> "2023"
                     [] y = 2024 -> "2024"
                     [] OTHER -> ""
        month_names == <<{"Jan", "January"}, {"Feb", "February"},
                         {"Mar", "March"}, {"Apr", "April"}, {"May"},
                         {"Jun", "June"}, {"Jul", "July"},
                         {"Aug", "August"}, {"Sep", "September"},
                         {"Oct", "October"}, {"Nov", "November"},
                         {"Dec", "December"}>>
        OVERRIDE_DATE == [n \in {N999} |-> <<"2", "0", "0", "3", "0", "3">>]
        pad2(m) == IF m < 10 THEN <<"0">> \o str(m) ELSE str(m)
        long == {y \in 1986..2025 : word(y) \in title_words}
        short == {y \in 86..99 : word(y) \in title_words}
        min(S) == CHOOSE y \in S : \A z \in S : y <= z
        year0 == IF long # {} THEN str(min(long))
                 ELSE IF short # {} THEN str(1900 + min(short))
                 ELSE <<>>
        named == {m \in 1..12 : month_names[m] \cap title_words # {}}
        month0 == IF named # {} THEN pad2(min(named)) ELSE <<>>
        dyear == SubSeq(ndata.date, 1, 4)
        dmon == SubSeq(ndata.date, 6, 7)
        year1 == IF month0 # <<>> /\ year0 = <<>>
                    /\ (dmon = month0
                        \/ (doc_class \in {"cmm", "cfptcm"}
                            /\ int(dmon) = int(month0) + 1))
                 THEN dyear ELSE year0
    IN  IF nnum \in DOMAIN OVERRIDE_DATE
           /\ (year1 = <<>> \/ month0 = <<>>)
        THEN [year |-> SubSeq(OVERRIDE_DATE[nnum], 1, 4),
              month |-> SubSeq(OVERRIDE_DATE[nnum], 5,
                               Len(OVERRIDE_DATE[nnum]))]
        ELSE [year |-> year1, month |-> month0]

\* The year and the month the first loop of generate_meeting_docs finds
\* for the record nnum of class doc_class, each as digits, <<>> for None.
\* The words of a modelled title are separated by spaces only, so
\* title_words are the words, and no title holds a year followed by "-" or
\* "/" and a month.  word(y) is str(y) for the years written in the
\* modelled titles; of OVERRIDE_DATE the entries for the record numbers of
\* the modelled logs are kept.
MeetingDate(nnum, ndata, doc_class) ==
    LET title_words == {ndata.maintitle[i] : i \in 1..Len(ndata.maintitle)}
        word(y) == CASE y = 2003 -> "2003"
                     [] y = 2023 -> "2023"
                     [] y = 2024 -> "2024"
                     [] OTHER -> ""
        month_names == <<{"Jan", "January"}, {"Feb", "February"},
                         {"Mar", "March"}, {"Apr", "April"}, {"May"},
                         {"Jun", "June"}, {"Jul", "July"},
                         {"Aug", "August"}, {"Sep", "September"},
                         {"Oct", "October"}, {"Nov", "November"},
                         {"Dec", "December"}>>
        OVERRIDE_DATE == [n \in {N999} |-> <<"2", "0", "0", "3", "0", "3">>]
        pad2(m) == IF m < 10 THEN <<"0">> \o str(m) ELSE str(m)
        long == {y \in 1986..2025 : word(y) \in title_words}
        short == {y \in 86..99 : word(y) \in title_words}
        min(S) == CHOOSE y \in S : \A z \in S : y <= z
        year0 == IF long # {} THEN str(min(long))
                 ELSE IF short # {} THEN str(1900 + min(short))
                 ELSE <<>>
        named == {m \in 1..12 : month_names[m] \cap title_words # {}}
        month0 == IF named # {} THEN pad2(min(named)) ELSE <<>>
        dyear == SubSeq(ndata.date, 1, 4)
        dmon == SubSeq(ndata.date, 6, 7)
        year1 == IF month0 # <<>> /\ year0 = <<>>
                    /\ (dmon = month0
                        \/ (doc_class \in {"cmm", "cfptcm"}
                            /\ int(dmon) = int(month0) + 1))
                 THEN dyear ELSE year0
    IN  IF nnum \in DOMAIN OVERRIDE_DATE
        THEN [year |-> SubSeq(OVERRIDE_DATE[nnum], 1, 4),
              month |-> SubSeq(OVERRIDE_DATE[nnum], 5,
                               Len(OVERRIDE_DATE[nnum]))]
        ELSE [year |-> year1, month |-> month0]

\* MeetingId with the form of class cm for every class.
MeetingIdAllIndexed(doc_class, k, xnum) ==
    <<upper(doc_class), int(k), "x", xnum>>

\* The identifier of a meeting document: '%s%sx%d' for class cm, '%s%s' for
\* the other classes.  The meeting k is six digits that do not start with
\* 0, written here as their number.
MeetingId(doc_class, k, xnum) ==
    IF doc_class = "cm"
    THEN <<upper(doc_class), int(k), "x", xnum>>
    ELSE <<upper(doc_class), int(k)>>

\* generate_meeting_docs on mapping d iterated in order ord: the documents
\* and the mapping with cdoc_rev set, or the exception raised.  Of
\* MEETING_DOC_GROUPS the group with record numbers of the modelled logs is
\* kept.
generate_meeting_docs(d, ord, doc_class) ==
    LET MEETING_DOC_GROUPS == {<<N2047, N2057>>}
        inclass == {i \in 1..Len(ord) : d[ord[i]].class = doc_class}
        first(S) == CHOOSE i \in S : \A j \in S : i <= j
        later_vers == UNION {{g[i] : i \in 2..Len(g)} :
                                g \in MEETING_DOC_GROUPS}
        in_group(x) == \E g \in MEETING_DOC_GROUPS : g[1] = x
        group_contents(x) == CHOOSE g \in MEETING_DOC_GROUPS : g[1] = x
        \* The first loop has found the meeting key[x] of every record x of
        \* the class.
        second(key) ==
            LET \* The position of meeting k in nnums_by_meeting: that of
                \* its first record in the mapping.
                pos(k) == first({i \in inclass : key[ord[i]] = k})
                nnums(k) == {x \in DOMAIN key : key[x] = k}
                \* The records that get a document: for cm every record
                \* left after the later versions are taken out, else the
                \* last of each meeting.
                heads == IF doc_class = "cm"
                         THEN DOMAIN key \ later_vers
                         ELSE {x \in DOMAIN key :
                                  \A y \in nnums(key[x]) : int(y) <= int(x)}
                before(y, x) == \/ pos(key[y]) < pos(key[x])
                                \/ key[y] = key[x] /\ int(y) < int(x)
                hs == [n \in 1..Cardinality(heads) |->
                          CHOOSE x \in heads :
                              Cardinality({y \in heads : before(y, x)})
                                  = n - 1]
                nums(x) == IF doc_class = "cm"
                           THEN IF in_group(x) THEN group_contents(x)
                                ELSE <<x>>
                           ELSE SortedNums(nnums(key[x]))
                \* The documents with a member the mapping lacks: data[...]
                \* of the last member is looked up first, then of each
                \* member in turn.
                missing == {n \in 1..Len(hs) :
                               \E i \in 1..Len(nums(hs[n])) :
                                   nums(hs[n])[i] \notin DOMAIN d}
                docs == [n \in 1..Len(hs) |->
                            [id |-> MeetingId(doc_class, key[hs[n]],
                                              1 + Cardinality({y \in heads :
                                                  /\ key[y] = key[hs[n]]
                                                  /\ int(y) < int(hs[n])})),
                             author |-> d[nums(hs[n])[Len(nums(hs[n]))]].author,
                             title |-> d[nums(hs[n])[Len(nums(hs[n]))]].title,
                             nums |-> nums(hs[n])]]
            IN  IF missing # {}
                THEN [data |-> d, docs |-> NoDocs,
                      err |-> LET g == nums(hs[first(missing)])
                              IN  Err("KeyError",
                                      IF g[Len(g)] \notin DOMAIN d
                                      THEN g[Len(g)]
                                      ELSE g[first({i \in 1..Len(g) :
                                                 g[i] \notin DOMAIN d})],
                                      "generate_meeting_docs")]
                ELSE [data |->
                         [x \in DOMAIN d |->
                             IF \E n \in 1..Len(hs) :
                                    \E r \in 1..Len(nums(hs[n])) :
                                        nums(hs[n])[r] = x
                             THEN [d[x] EXCEPT !.cdoc_rev =
                                      CHOOSE r \in 1..Cardinality(DOMAIN d) :
                                          \E n \in 1..Len(hs) :
                                              /\ r <= Len(nums(hs[n]))
                                              /\ nums(hs[n])[r] = x]
                             ELSE d[x]],
                      docs |-> docs, err |-> NoErr]
        first_loop(date) ==
            LET nodate == {i \in inclass : date[ord[i]].month = <<>>
                                           \/ date[ord[i]].year = <<>>}
            IN  IF nodate # {}
                THEN [data |-> d, docs |-> NoDocs,
                      err |-> Err("could not parse date",
                                  <<ord[first(nodate)],
                                    d[ord[first(nodate)]].title>>,
                                  "generate_meeting_docs")]
                ELSE second([x \in DOMAIN date |->
                                date[x].year \o date[x].month])
    IN  first_loop([x \in {ord[i] : i \in inclass} |->
                       MeetingDate(x, d[x], doc_class)])

----------------------------------------------------------------------------
(* The tables and parameters of action_convert, restricted to the record   *)
(* numbers of the modelled logs.                                           *)

C_EXTRA_INCLUDE == {N3160}
C_EXTRA_EXCLUDE == {N3216}
CADM_EXTRA_INCLUDE == {N3118}
CADM_EXTRA_EXCLUDE == {}

\* No record number of the modelled logs is listed in MEETING_TO_DOCS.
MEETING_TO_DOCS == {}

C_START == 4000
CADM_START == 1
C_CUTOFF == <<"2", "0", "2", "3", "-", "1", "0", "-", "0", "1">>
CADM_CUTOFF == <<"2", "0", "2", "3", "-", "0", "9", "-", "0", "1">>

\* for m, dl in MEETING_TO_DOCS.items(): for d in dl: data[d]...
AnnotateError(d) ==
    IF \E md \in MEETING_TO_DOCS : md[2] \notin DOMAIN d
    THEN Err("KeyError",
             (CHOOSE md \in MEETING_TO_DOCS : md[2] \notin DOMAIN d)[2],
             "action_convert")
    ELSE NoErr

----------------------------------------------------------------------------
(* The log lines of the modelled logs.                                     *)

Updates(num) == [kind |-> "updates", sep |-> " ", pfx |-> "N", num |-> num]
\* "Updates: N<num>": two separator characters.
UpdatesColonSpace(num) ==
    [kind |-> "updates", sep |-> ": ", pfx |-> "N", num |-> num]
Version(num) == [kind |-> "version", sep |-> "", pfx |-> "v", num |-> num]

Line(nnum, date, author, words, markers) ==
    [layout |-> "nolink", nnum |-> nnum, assigned |-> TRUE, date |-> date,
     author |-> author, title |-> [words |-> words, markers |-> markers]]

Raw20230831 == <<"2", "0", "2", "3", "/", "0", "8", "/", "3", "1", " ">>
Raw20230901 == <<"2", "0", "2", "3", "/", "0", "9", "/", "0", "1", " ">>
Raw20230930 == <<"2", "0", "2", "3", "/", "0", "9", "/", "3", "0", " ">>
Raw20231001 == <<"2", "0", "2", "3", "/", "1", "0", "/", "0", "1", " ">>
Raw20231115 == <<"2", "0", "2", "3", "/", "1", "1", "/", "1", "5", " ">>
Raw20240115 == <<"2", "0", "2", "4", "/", "0", "1", "/", "1", "5", " ">>
Raw15Mar03 == <<"1", "5", "-", "M", "a", "r", "-", "0", "3", " ">>
Raw05Jan10 == <<"0", "5", "-", "J", "a", "n", "-", "1", "0", " ">>
Raw01Xyz2001 == <<"0", "1", "-", "X", "y", "z", "-", "2", "0", "0", "1", " ">>

TCompositeTypes == <<"Composite", "types">>
TCompositeTypesCap == <<"Composite", "Types">>
TBigArray == <<"Big", "Array", "Size", "Survey">>
TTheBigArray == <<"The", "Big", "Array", "Size", "Survey">>
TCharter == <<"The", "C", "Standard", "Charter">>
TCharterLow == <<"The", "C", "Standard", "charter">>
TAgenda == <<"Agenda">>
TDefer == <<"Defer">>

L999a == Line(N999, Raw20230930, "A", TCompositeTypes, <<>>)
L999b == Line(N999, Raw20231001, "B", TBigArray, <<Updates(N1000)>>)
L1000a == Line(N1000, Raw20231001, "A", TCompositeTypesCap,
               <<Version(<<"2">>)>>)
L1000b == Line(N1000, Raw20230831, "B", TCharter, <<Updates(N3216)>>)
L1001a == Line(N1001, Raw20230930, "A", TDefer, <<>>)
L3216a == Line(N3216, Raw20231001, "A", TTheBigArray, <<>>)
L3216b == Line(N3216, Raw20231115, "B", TCompositeTypes, <<Updates(N999)>>)
L3118a == Line(N3118, Raw20230831, "A", TCompositeTypes, <<>>)
L3118b == Line(N3118, Raw20230901, "B", TCharterLow, <<Updates(N998)>>)
L3160a == Line(N3160, Raw20230930, "A", TBigArray,
               <<UpdatesColonSpace(N999)>>)
L998a == Line(N998, Raw15Mar03, "A", TAgenda, <<>>)
\* A line of neither layout, a 'Not assigned.' line, a line with a date of
\* no grammar.
LNoLayout == [Line(N999, Raw20231001, "A", TCompositeTypes, <<>>)
                 EXCEPT !.layout = "none"]
LNotAssigned == [Line(N1000, <<>>, "", <<>>, <<>>) EXCEPT !.assigned = FALSE]
LBadDate == Line(N999, Raw05Jan10, "A", TCompositeTypes, <<>>)
\* A line whose date has the shape of DD-Mon-YYYY with no month of the table.
LBadMonth == Line(N1000, Raw01Xyz2001, "A", TCompositeTypes, <<>>)

LogLines == {L999a, L999b, L1000a, L1000b, L1001a, L3216a, L3216b, L3118a, L3118b,
             L3160a, L998a, LNoLayout, LNotAssigned, LBadDate, LBadMonth}

\* The longest log.
MaxLines == 3

----------------------------------------------------------------------------
(* The raw dates the date grammars are exercised on.  A raw date is        *)
(* rendered from the way it is written: a format, the year as written      *)
(* (four or two digits), a month, a day, and what follows the date in the  *)
(* line.                                                                   *)

DateFormats == {"YYYY/MM/DD", "DD-Mon-YYYY", "DD-Mon-YY", "DD Mon YY",
                "DD-Mon YY"}
Years4 == {<<"1", "9", "9", "9">>, <<"2", "0", "0", "0">>,
           <<"2", "0", "0", "1">>, <<"2", "0", "0", "5">>,
           <<"2", "0", "0", "6">>, <<"2", "0", "2", "3">>,
           <<"2", "0", "2", "9">>, <<"2", "0", "3", "0">>}
Years2 == {<<"0", "0">>, <<"0", "5">>, <<"0", "9">>, <<"1", "0">>,
           <<"7", "9">>, <<"8", "0">>, <<"9", "9">>}
\* Months as written: a month of the year, "Xyz" (shaped like an
\* abbreviation, but no month) or "JAN" (not shaped like one).
MonthsWritten == {"Jan", "Oct", "Dec", "Xyz", "JAN"}
DaysWritten == {<<"0", "1">>, <<"3", "1">>, <<"4", "0">>}
DateTails == {<<" ", "W">>, <<>>}

MonthAbbrev(m) ==
    CASE m = "Jan" -> <<"J", "a", "n">>
      [] m = "Oct" -> <<"O", "c", "t">>
      [] m = "Dec" -> <<"D", "e", "c">>
      [] m = "Xyz" -> <<"X", "y", "z">>
      [] m = "JAN" -> <<"J", "A", "N">>

MonthDigits(m) ==
    CASE m = "Jan" -> <<"0", "1">>
      [] m = "Oct" -> <<"1", "0">>
      [] m = "Dec" -> <<"1", "2">>
      [] m = "Xyz" -> <<"2", "0">>
      [] m = "JAN" -> <<"J", "A">>

IsWrittenDate(w) ==
    /\ w.fmt \in DateFormats
    /\ w.year \in (IF w.fmt \in {"YYYY/MM/DD", "DD-Mon-YYYY"}
                   THEN Years4 ELSE Years2)
    /\ w.month \in MonthsWritten
    /\ w.day \in DaysWritten
    /\ w.tail \in DateTails

WrittenDates ==
    {w \in [fmt : DateFormats, year : Years4 \cup Years2,
            month : MonthsWritten, day : DaysWritten, tail : DateTails] :
        IsWrittenDate(w)}

RenderDate(w) ==
    (CASE w.fmt = "YYYY/MM/DD" ->
            w.year \o <<"/">> \o MonthDigits(w.month) \o <<"/">> \o w.day
       [] w.fmt = "DD-Mon-YYYY" ->
            w.day \o <<"-">> \o MonthAbbrev(w.month) \o <<"-">> \o w.year
       [] w.fmt = "DD-Mon-YY" ->
            w.day \o <<"-">> \o MonthAbbrev(w.month) \o <<"-">> \o w.year
       [] w.fmt = "DD Mon YY" ->
            w.day \o <<" ">> \o MonthAbbrev(w.month) \o <<" ">> \o w.year
       [] w.fmt = "DD-Mon YY" ->
            w.day \o <<"-">> \o MonthAbbrev(w.month) \o <<" ">> \o w.year)
    \o w.tail

----------------------------------------------------------------------------
(* Initial state of a run of action_convert, and of the harness.           *)

Idle == "idle"
Nothing == "nothing"

PipeInit ==
    /\ pc = "extract"
    /\ lines = <<>>
    /\ data = NoRecords
    /\ order = <<>>
    /\ err = NoErr
    /\ changed = FALSE
    /\ c_docs = NoDocs
    /\ cadm_docs = NoDocs
    /\ out = <<>>
    /\ cpub_docs = NoDocs
    /\ cpubx_docs = NoDocs
    /\ mclass = 0
    /\ m_docs = NoDocs
    /\ side = {}

UnitInit ==
    /\ upc = Idle
    /\ uarg = Nothing
    /\ ures = Nothing

----------------------------------------------------------------------------
(* The date grammars on their own: a raw date is chosen and parsed.        *)

DateChoose ==
    /\ upc = Idle
    /\ \E w \in WrittenDates :
          uarg' = [written |-> w, line |-> RenderDate(w)]
    /\ upc' = "date"
    /\ ures' = Nothing
    /\ UNCHANGED pipeVars

DateParse ==
    /\ upc = "date"
    /\ ures' = ParseDate(uarg.line)
    /\ upc' = "date parsed"
    /\ UNCHANGED <<uarg, pipeVars>>

InitDate == PipeInit /\ UnitInit

NextDate == DateChoose \/ DateParse

SpecDate == InitDate /\ [][NextDate]_vars

----------------------------------------------------------------------------
(* The classifier on its own: a title is put together from fragments and   *)
(* classified as the first loop of classify_docs classifies a record.      *)

TitleFragments ==
    {<<"Working", "Draft">>, <<"FP", "Teleconference">>, <<"Agenda">>,
     <<"Minutes">>, <<"Notes">>, <<"Venue">>, <<"Charter">>,
     <<"Progress", "Report">>, <<"editor">>, <<"LaTeX">>,
     <<"Composite", "types">>, <<"agneda">>, <<"fp", "meeting">>,
     <<"Liaison", "Report">>}

\* The most fragments in a title.
MaxFragments == 2

ClassNumbers == {N998, N999, N3118}

TitleStart ==
    /\ upc = Idle
    /\ \E n \in ClassNumbers : uarg' = [nnum |-> n, words |-> <<>>, frags |-> 0]
    /\ upc' = "title"
    /\ ures' = Nothing
    /\ UNCHANGED pipeVars

TitleAppend ==
    /\ upc = "title"
    /\ uarg.frags < MaxFragments
    /\ \E f \in TitleFragments :
          uarg' = [uarg EXCEPT !.words = @ \o f, !.frags = @ + 1]
    /\ UNCHANGED <<upc, ures, pipeVars>>

\* ndata['maintitle'] and ndata['class'] of the record, as the first loop
\* of classify_docs sets them.
TitleClassify ==
    /\ upc = "title"
    /\ uarg.frags >= 1
    /\ LET d == ClassifyRecords(
                    [n \in {uarg.nnum} |->
                        NewRecord(NoDate, "WG14",
                                  [words |-> uarg.words, markers |-> <<>>])])
       IN  ures' = [maintitle |-> d[uarg.nnum].maintitle,
                    heuristic |-> HeuristicClass(d[uarg.nnum].maintitle),
                    class |-> d[uarg.nnum].class]
    /\ upc' = "classified"
    /\ UNCHANGED <<uarg, pipeVars>>

InitClass == PipeInit /\ UnitInit

NextClass == TitleStart \/ TitleAppend \/ TitleClassify

SpecClass == InitClass /\ [][NextClass]_vars

----------------------------------------------------------------------------
(* classify_docs on its own: a record mapping is put together from record  *)
(* numbers, titles and "updates" references, and grouped; the passes of    *)
(* the "while changed" loop are steps.                                     *)

\* The most records in a mapping.
MaxRecords == 3

\* The most passes of the "while changed" loop that are followed.
MaxPasses == 5

GroupStart ==
    /\ upc = Idle
    /\ uarg' = [data |-> NoRecords, order |-> <<>>]
    /\ upc' = "records"
    /\ ures' = Nothing
    /\ UNCHANGED pipeVars

\* One more record in the mapping, as get_ndoc_data stores it.
GroupAdd ==
    /\ upc = "records"
    /\ Len(uarg.order) < MaxRecords
    /\ \E n \in {N999, N1000, N3141} \ DOMAIN uarg.data :
       \E words \in {TCompositeTypes, OVERRIDE_GROUP_TITLE[N3141], TAgenda} :
       \E markers \in {<<>>} \cup {<<Updates(o)>> : o \in {N999, N1000, N3141}} :
          uarg' = [data |->
                      [m \in DOMAIN uarg.data \cup {n} |->
                          IF m = n
                          THEN NewRecord(SubSeq(C_CUTOFF, 1, 10), "A",
                                         [words |-> words,
                                          markers |-> markers])
                          ELSE uarg.data[m]],
                   order |-> Append(uarg.order, n)]
    /\ UNCHANGED <<upc, ures, pipeVars>>

\* classify_docs up to "changed = True".  at is the position in the mapping
\* of the record the for loop is at, 0 at the head of "while changed".
GroupClassify ==
    /\ upc = "records"
    /\ uarg.order # <<>>
    /\ ures' = [data |-> GroupByTitle(ClassifyRecords(uarg.data)),
                changed |-> TRUE, err |-> NoErr, passes |-> 0, at |-> 0]
    /\ upc' = "updates"
    /\ UNCHANGED <<uarg, pipeVars>>

\* "while changed" finds changed set and starts a pass.
GroupPass ==
    /\ upc = "updates"
    /\ ures.at = 0
    /\ ures.changed
    /\ ures.passes < MaxPasses
    /\ ures' = [ures EXCEPT !.changed = FALSE, !.passes = @ + 1, !.at = 1]
    /\ UNCHANGED <<upc, uarg, pipeVars>>

\* The body of the for loop for one record.
GroupStep ==
    /\ upc = "updates"
    /\ ures.at \in 1..Len(uarg.order)
    /\ LET r == UpdateStep([data |-> ures.data, changed |-> ures.changed,
                            err |-> NoErr], uarg.order[ures.at])
       IN  /\ ures' = [ures EXCEPT !.data = r.data, !.changed = r.changed,
                                   !.err = r.err,
                                   !.at = IF ures.at = Len(uarg.order)
                                          THEN 0 ELSE ures.at + 1]
           /\ upc' = IF r.err # NoErr THEN "failed" ELSE "updates"
    /\ UNCHANGED <<uarg, pipeVars>>

\* "while changed" finds changed clear and classify_docs returns.
GroupExit ==
    /\ upc = "updates"
    /\ ures.at = 0
    /\ ~ures.changed
    /\ upc' = "grouped"
    /\ UNCHANGED <<uarg, ures, pipeVars>>

NextGroup ==
    \/ GroupStart
    \/ GroupAdd
    \/ GroupClassify
    \/ GroupPass
    \/ GroupStep
    \/ GroupExit

InitGroup == PipeInit /\ UnitInit

SpecGroup == InitGroup /\ [][NextGroup]_vars

\* The loop is run to its end: Python does not suspend it.
SpecGroupFair == SpecGroup /\ WF_vars(GroupPass \/ GroupStep \/ GroupExit)

----------------------------------------------------------------------------
(* generate_cpub_docs on its own: a record mapping is put together from    *)
(* record numbers, dates and titles of catalog publications, classified,   *)
(* and the CPUB and CPUBX documents are generated and written.             *)

MaxCpub == 2

D19900601 == <<"1", "9", "9", "0", "-", "0", "6", "-", "0", "1">>
D19950101 == <<"1", "9", "9", "5", "-", "0", "1", "-", "0", "1">>
D20180801 == <<"2", "0", "1", "8", "-", "0", "8", "-", "0", "1">>
D20240115 == <<"2", "0", "2", "4", "-", "0", "1", "-", "1", "5">>

CpubStart ==
    /\ upc = Idle
    /\ uarg' = [data |-> NoRecords, order |-> <<>>]
    /\ upc' = "catalog"
    /\ ures' = Nothing
    /\ UNCHANGED pipeVars

\* One more record in the mapping, as get_ndoc_data stores it.
CpubAdd ==
    /\ upc = "catalog"
    /\ Len(uarg.order) < MaxCpub
    /\ \E n \in {N998, N3216, N3219, N3700} \ DOMAIN uarg.data :
       \E date \in {D19900601, D19950101, D20180801, D20240115} :
       \E words \in {<<"Working", "Draft">>,
                      <<"Rationale", "Working", "Draft">>,
                      <<"Editor", "Report">>,
                      <<"Rationale", "Editor", "Report">>} :
          uarg' = [data |->
                      [m \in DOMAIN uarg.data \cup {n} |->
                          IF m = n
                          THEN NewRecord(date, "A",
                                         [words |-> words, markers |-> <<>>])
                          ELSE uarg.data[m]],
                   order |-> Append(uarg.order, n)]
    /\ UNCHANGED <<upc, ures, pipeVars>>

\* classify_docs, generate_cpub_docs and convert_cpub_docs on the mapping.
CpubGenerate ==
    /\ upc = "catalog"
    /\ uarg.order # <<>>
    /\ \E cl \in {classify_docs(uarg.data, uarg.order)} :
       \E r \in {generate_cpub_docs(cl.data, uarg.order)} :
       \E w \in {convert_cpub_docs([data |-> r.data, out |-> <<>>],
                                    r.docs, r.xdocs)} :
           IF r.err # NoErr
           THEN /\ ures' = [data |-> cl.data, docs |-> NoDocs,
                            xdocs |-> NoDocs, out |-> <<>>, err |-> r.err]
                /\ upc' = "failed"
           ELSE /\ ures' = [data |-> w.data, docs |-> r.docs,
                            xdocs |-> r.xdocs, out |-> w.out, err |-> NoErr]
                /\ upc' = "placed"
    /\ UNCHANGED <<uarg, pipeVars>>

NextCpub == CpubStart \/ CpubAdd \/ CpubGenerate

InitCpub == PipeInit /\ UnitInit

SpecCpub == InitCpub /\ [][NextCpub]_vars

----------------------------------------------------------------------------
(* generate_meeting_docs on its own: a record mapping is put together from *)
(* record numbers, dates and titles of meeting documents, classified, and  *)
(* the documents of the five meeting classes are generated and written as  *)
(* the loop of action_convert does.                                        *)

MaxMeeting == 3

D20231115 == <<"2", "0", "2", "3", "-", "1", "1", "-", "1", "5">>

\* The loop over the meeting classes from class number c on; st is
\* [data, out, docs, err], docs the documents of all classes so far.
RECURSIVE MeetingClasses(_, _, _)
MeetingClasses(st, ord, c) ==
    IF c > 5 THEN st
    ELSE LET cls == <<"cm", "cma", "cmm", "cfptca", "cfptcm">>[c]
             r == generate_meeting_docs(st.data, ord, cls)
             w == convert_docs([data |-> r.data, out |-> st.out],
                               upper(cls), r.docs)
         IN  IF r.err # NoErr THEN [st EXCEPT !.err = r.err]
             ELSE MeetingClasses([data |-> w.data, out |-> w.out,
                                  docs |-> st.docs \o r.docs,
                                  err |-> NoErr], ord, c + 1)

MeetingStart ==
    /\ upc = Idle
    /\ uarg' = [data |-> NoRecords, order |-> <<>>]
    /\ upc' = "meetings"
    /\ ures' = Nothing
    /\ UNCHANGED pipeVars

\* One more record in the mapping, as get_ndoc_data stores it.
MeetingAdd ==
    /\ upc = "meetings"
    /\ Len(uarg.order) < MaxMeeting
    /\ \E n \in {N999, N2047, N2057, N3700} \ DOMAIN uarg.data :
       \E date \in {C_CUTOFF, D20231115} :
       \E words \in {<<"Agenda", "October", "2023">>,
                      <<"Agenda", "October">>,
                      TAgenda,
                      <<"Venue", "October", "2023">>,
                      <<"Minutes", "October">>} :
       \E author \in {IF n = N2057 THEN "B" ELSE "A"} :
          uarg' = [data |->
                      [m \in DOMAIN uarg.data \cup {n} |->
                          IF m = n
                          THEN NewRecord(date, author,
                                         [words |-> words, markers |-> <<>>])
                          ELSE uarg.data[m]],
                   order |-> Append(uarg.order, n)]
    /\ UNCHANGED <<upc, ures, pipeVars>>

\* classify_docs, then generate_meeting_docs and convert_docs for each
\* meeting class.
MeetingGenerate ==
    /\ upc = "meetings"
    /\ uarg.order # <<>>
    /\ \E cl \in {classify_docs(uarg.data, uarg.order)} :
       \E r \in {MeetingClasses([data |-> cl.data, out |-> <<>>,
                                  docs |-> NoDocs, err |-> NoErr],
                                 uarg.order, 1)} :
           /\ ures' = r
           /\ upc' = IF r.err # NoErr THEN "failed" ELSE "met"
    /\ UNCHANGED <<uarg, pipeVars>>

NextMeeting == MeetingStart \/ MeetingAdd \/ MeetingGenerate

InitMeeting == PipeInit /\ UnitInit

SpecMeeting == InitMeeting /\ [][NextMeeting]_vars

----------------------------------------------------------------------------
(* format.py: split_doc_id, the sort keys of DocList and write_chron, on   *)
(* revisions loaded with the identifiers convert.py writes.                *)

LetterSeq ==
    <<"A", "B", "C", "D", "E", "F", "G", "H", "I", "J", "K", "L", "M",
      "N", "O", "P", "Q", "R", "S", "T", "U", "V", "W", "X", "Y", "Z",
      "a", "b", "c", "d", "e", "f", "g", "h", "i", "j", "k", "l", "m",
      "n", "o", "p", "q", "r", "s", "t", "u", "v", "w", "x", "y", "z">>

\* Code point of a letter.
AlphaOrd(c) ==
    LET i == CHOOSE j \in 1..52 : LetterSeq[j] = c
    IN  IF i <= 26 THEN 64 + i ELSE 70 + i

\* Python's < on two str of letters.
RECURSIVE AlphaLess(_, _)
AlphaLess(s, t) ==
    IF t = <<>> THEN FALSE
    ELSE IF s = <<>> THEN TRUE
    ELSE IF s[1] # t[1] THEN AlphaOrd(s[1]) < AlphaOrd(t[1])
    ELSE AlphaLess(Tail(s), Tail(t))

\* Python's < on two tuples of int.
RECURSIVE IntsLess(_, _)
IntsLess(a, b) ==
    IF b = <<>> THEN FALSE
    ELSE IF a = <<>> THEN TRUE
    ELSE IF a[1] # b[1] THEN a[1] < b[1]
    ELSE IntsLess(Tail(a), Tail(b))

\* The length of the longest prefix of text with characters of S.
RunLen(text, S) ==
    CHOOSE n \in 0..Len(text) :
        /\ \A i \in 1..n : text[i] \in S
        /\ n = Len(text) \/ text[n + 1] \notin S

\* The length of the match of [0-9]+(?:\.[0-9]+)* at the start of text,
\* which starts with a digit.
RECURSIVE NumLen(_)
NumLen(text) ==
    LET d == RunLen(text, Digit)
    IN  IF d + 2 <= Len(text) /\ text[d + 1] = "." /\ text[d + 2] \in Digit
        THEN d + 1 + NumLen(SubSeq(text, d + 2, Len(text)))
        ELSE d

\* The value kept for one run of digits: int(i), or with as_int false a
\* number that orders the runs of up to six digits as str orders them.
PartValue(digits, as_int) ==
    IF as_int THEN int(digits)
    ELSE int(digits \o [i \in 1..(6 - Len(digits)) |-> "0"])

\* tuple(int(i) for i in m.group(0).split('.'))
RECURSIVE DotInts(_, _)
DotInts(text, as_int) ==
    LET d == RunLen(text, Digit)
    IN  IF d = Len(text) THEN <<PartValue(text, as_int)>>
        ELSE <<PartValue(SubSeq(text, 1, d), as_int)>>
             \o DotInts(SubSeq(text, d + 2, Len(text)), as_int)

AlphaPart(text) == [kind |-> "alpha", text |-> text, nums |-> <<>>]
NumPart(nums) == [kind |-> "num", text |-> <<>>, nums |-> nums]
BadPart == [kind |-> "bad", text |-> <<>>, nums |-> <<>>]

\* The while loop of split_doc_id: the parts, ending with BadPart where
\* neither pattern matches.
RECURSIVE SplitParts(_, _)
SplitParts(text, as_int) ==
    IF text = <<>> THEN <<>>
    ELSE IF text[1] \in Upper \cup Lower
    THEN LET n == RunLen(text, Upper \cup Lower)
         IN  <<AlphaPart(SubSeq(text, 1, n))>>
             \o SplitParts(SubSeq(text, n + 1, Len(text)), as_int)
    ELSE IF text[1] \in Digit
    THEN LET n == NumLen(text)
         IN  <<NumPart(DotInts(SubSeq(text, 1, n), as_int))>>
             \o SplitParts(SubSeq(text, n + 1, Len(text)), as_int)
    ELSE <<BadPart>>

\* split_doc_id with the numerical parts kept as text.
split_doc_id_text(text) ==
    LET parts == SplitParts(text, FALSE)
    IN  IF parts # <<>> /\ parts[Len(parts)] = BadPart
        THEN [parts |-> <<>>,
              err |-> Err("could not parse ID", text, "split_doc_id")]
        ELSE [parts |-> parts, err |-> NoErr]

\* split_doc_id: the alphabetical and numerical parts of an identifier, or
\* the ValueError.
split_doc_id(text) ==
    LET parts == SplitParts(text, TRUE)
    IN  IF parts # <<>> /\ parts[Len(parts)] = BadPart
        THEN [parts |-> <<>>,
              err |-> Err("could not parse ID", text, "split_doc_id")]
        ELSE [parts |-> parts, err |-> NoErr]

\* The first position at which two lists of parts differ, 0 when one is a
\* prefix of the other.
FirstDiff(a, b) ==
    LET n == IF Len(a) < Len(b) THEN Len(a) ELSE Len(b)
        diff == {i \in 1..n : a[i] # b[i]}
    IN  IF diff = {} THEN 0 ELSE CHOOSE i \in diff : \A j \in diff : i <= j

\* Python's < on two lists of parts raises TypeError: the first parts that
\* differ are a str and a tuple.
PartsTypeError(a, b) ==
    FirstDiff(a, b) # 0 /\ a[FirstDiff(a, b)].kind # b[FirstDiff(a, b)].kind

\* Python's < on two lists of parts of which the first that differ are of
\* one kind.
PartsLess(a, b) ==
    LET i == FirstDiff(a, b)
    IN  IF i = 0 THEN Len(a) < Len(b)
        ELSE IF a[i].kind = "alpha" THEN AlphaLess(a[i].text, b[i].text)
        ELSE IntsLess(a[i].nums, b[i].nums)

\* < on two entries of rev_sort: (rev['date'], split_doc_id(rev['id'])).
SortLess(k1, k2) ==
    \/ StrLess(k1.date, k2.date)
    \/ k1.date = k2.date /\ PartsLess(k1.parts, k2.parts)

\* DocList.__init__ on the loaded revisions, a function from identifier to
\* [date]: by_rev with the class of each revision, rev_sort, or the
\* ValueError of split_doc_id.  The class is the directory the revision
\* was read from, which convert.py names by the first word of the
\* identifier.
DocList(revs) ==
    LET split == [id \in DOMAIN revs |-> split_doc_id(IdText(id))]
        bad == {id \in DOMAIN revs : split[id].err # NoErr}
    IN  [by_rev |-> [id \in DOMAIN revs |->
                        [id |-> id, date |-> revs[id].date, class |-> id[1]]],
         rev_sort |-> [id \in DOMAIN revs |->
                          [date |-> revs[id].date, parts |-> split[id].parts]],
         err |-> IF bad = {} THEN NoErr
                 ELSE split[CHOOSE id \in bad : TRUE].err]

\* write_chron: the revisions of the classes in descending order of their
\* keys.  With reverse=True equal keys would keep their order; the keys
\* of distinct identifiers differ.  A sort compares the pairs it chooses:
\* the TypeError is taken to be raised when any pair of keys raises it.
write_chron(all_data, classes) ==
    LET ks == {id \in DOMAIN all_data.by_rev :
                  all_data.by_rev[id].class \in classes}
        key(id) == all_data.rev_sort[id]
        clash == \E a, b \in ks :
                     /\ key(a).date = key(b).date
                     /\ PartsTypeError(key(a).parts, key(b).parts)
    IN  IF clash
        THEN [list |-> <<>>, err |-> Err("TypeError", <<>>, "write_chron")]
        ELSE [list |-> [n \in 1..Cardinality(ks) |->
                           CHOOSE id \in ks :
                               Cardinality({o \in ks :
                                   SortLess(key(id), key(o))}) = n - 1],
              err |-> NoErr]

MaxRevs == 3

\* Identifiers of the forms convert.py writes.
ChronIds ==
    {<<"C", 4000, "r", 9>>, <<"C", 4000, "r", 10>>, <<"C", 4001, "r", 1>>,
     <<"CPUB", 1, "e", 5, "r", 1>>, <<"CPUBX", 1, "x", 1, "r", 1>>,
     <<"CM", 202310, "x", 1, "r", 1>>, <<"CMA", 202310, "r", 1>>,
     <<"CMM", 202310, "r", 1>>}

ChronStart ==
    /\ upc = Idle
    /\ uarg' = [revs |-> <<>>]
    /\ upc' = "loading"
    /\ ures' = Nothing
    /\ UNCHANGED pipeVars

\* One more revision is loaded from a metadata.json.
ChronLoad ==
    /\ upc = "loading"
    /\ Cardinality(DOMAIN uarg.revs) < MaxRevs
    /\ \E id \in ChronIds \ DOMAIN uarg.revs :
       \E date \in {C_CUTOFF, D20231115} :
          uarg' = [revs |-> [i \in DOMAIN uarg.revs \cup {id} |->
                               IF i = id THEN [date |-> date]
                               ELSE uarg.revs[i]]]
    /\ UNCHANGED <<upc, ures, pipeVars>>

\* DocList and one call of write_chron of action_format.
ChronWrite ==
    /\ upc = "loading"
    /\ DOMAIN uarg.revs # {}
    /\ \E classes \in {{"C"}, {"CADM"}, {"CPUB", "CPUBX"},
                         {"CM", "CMA", "CMM"}, {"CFPTCA", "CFPTCM"}} :
       \E all_data \in {DocList(uarg.revs)} :
       \E w \in {write_chron(all_data, classes)} :
          /\ ures' = [classes |-> classes, list |-> w.list,
                      err |-> IF all_data.err # NoErr THEN all_data.err
                              ELSE w.err]
          /\ upc' = "written"
    /\ UNCHANGED <<uarg, pipeVars>>

NextChron == ChronStart \/ ChronLoad \/ ChronWrite

InitChron == PipeInit /\ UnitInit

SpecChron == InitChron /\ [][NextChron]_vars

----------------------------------------------------------------------------
(* action_convert, one stage at a time.                                    *)

\* get_ndoc_data reads the next line of the log.
ReadLine ==
    /\ pc = "extract"
    /\ Len(lines) < MaxLines
    /\ \E line \in LogLines :
          LET r == ExtractLine(data, order, line)
          IN  /\ lines' = Append(lines, line)
              /\ data' = r.data
              /\ order' = r.order
              /\ err' = r.err
              /\ pc' = IF r.err = NoErr THEN "extract" ELSE "failed"
    /\ UNCHANGED <<changed, c_docs, cadm_docs, out, lateVars, unitVars>>

\* get_ndoc_data returns at the end of the log.
EndOfLog ==
    /\ pc = "extract"
    /\ pc' = "annotate"
    /\ UNCHANGED <<lines, data, order, err, changed, c_docs, cadm_docs, out,
                   lateVars, unitVars>>

\* The loop over MEETING_TO_DOCS.
AnnotateMeetings ==
    /\ pc = "annotate"
    /\ err' = AnnotateError(data)
    /\ pc' = IF err' = NoErr THEN "classify" ELSE "failed"
    /\ UNCHANGED <<lines, data, order, changed, c_docs, cadm_docs, out,
                   lateVars, unitVars>>

\* classify_docs: the first loop.
Classify ==
    /\ pc = "classify"
    /\ data' = ClassifyRecords(data)
    /\ pc' = "group titles"
    /\ UNCHANGED <<lines, order, err, changed, c_docs, cadm_docs, out,
                   lateVars, unitVars>>

\* classify_docs: the second loop, and changed = True.
GroupTitles ==
    /\ pc = "group titles"
    /\ data' = GroupByTitle(data)
    /\ changed' = TRUE
    /\ pc' = "updates"
    /\ UNCHANGED <<lines, order, err, c_docs, cadm_docs, out, lateVars, unitVars>>

\* classify_docs: one pass of the "while changed" loop.
UpdatesLoopPass ==
    /\ pc = "updates"
    /\ changed
    /\ LET r == UpdatesPass(data, order)
       IN  /\ data' = r.data
           /\ changed' = r.changed
           /\ err' = r.err
           /\ pc' = IF r.err # NoErr THEN "failed" ELSE "updates"
    /\ UNCHANGED <<lines, order, c_docs, cadm_docs, out, lateVars, unitVars>>

\* classify_docs returns when a pass changed nothing.
UpdatesLoopExit ==
    /\ pc = "updates"
    /\ ~changed
    /\ pc' = "autonum c"
    /\ UNCHANGED <<lines, data, order, err, changed, c_docs, cadm_docs, out,
                   lateVars, unitVars>>

AutonumC ==
    /\ pc = "autonum c"
    /\ LET r == generate_autonum_docs(data, order, "c", C_START, C_CUTOFF,
                                      C_EXTRA_EXCLUDE, C_EXTRA_INCLUDE)
       IN  /\ data' = r.data
           /\ c_docs' = r.docs
    /\ pc' = "convert c"
    /\ UNCHANGED <<lines, order, err, changed, cadm_docs, out, lateVars, unitVars>>

ConvertC ==
    /\ pc = "convert c"
    /\ LET r == convert_docs([data |-> data, out |-> out], "C", c_docs)
       IN  /\ data' = r.data
           /\ out' = r.out
    /\ pc' = "autonum cadm"
    /\ UNCHANGED <<lines, order, err, changed, c_docs, cadm_docs, lateVars, unitVars>>

AutonumCadm ==
    /\ pc = "autonum cadm"
    /\ LET r == generate_autonum_docs(data, order, "cadm", CADM_START,
                                      CADM_CUTOFF, CADM_EXTRA_EXCLUDE,
                                      CADM_EXTRA_INCLUDE)
       IN  /\ data' = r.data
           /\ cadm_docs' = r.docs
    /\ pc' = "convert cadm"
    /\ UNCHANGED <<lines, order, err, changed, c_docs, out, lateVars, unitVars>>

ConvertCadm ==
    /\ pc = "convert cadm"
    /\ LET r == convert_docs([data |-> data, out |-> out], "CADM", cadm_docs)
       IN  /\ data' = r.data
           /\ out' = r.out
    /\ pc' = "cpub"
    /\ UNCHANGED <<lines, order, err, changed, c_docs, cadm_docs, lateVars, unitVars>>

\* generate_cpub_docs and convert_cpub_docs.
CpubDocs ==
    /\ pc = "cpub"
    /\ \E r \in {generate_cpub_docs(data, order)} :
       \E w \in {convert_cpub_docs([data |-> r.data, out |-> out],
                                    r.docs, r.xdocs)} :
           IF r.err # NoErr
           THEN /\ err' = r.err
                /\ pc' = "failed"
                /\ UNCHANGED <<data, out, cpub_docs, cpubx_docs>>
           ELSE /\ data' = w.data
                /\ out' = w.out
                /\ cpub_docs' = r.docs
                /\ cpubx_docs' = r.xdocs
                /\ pc' = "meeting"
                /\ UNCHANGED err
    /\ UNCHANGED <<lines, order, changed, c_docs, cadm_docs, mclass, m_docs,
                   side, unitVars>>

\* One turn of the loop over ('cm', 'cma', 'cmm', 'cfptca', 'cfptcm'):
\* generate_meeting_docs and convert_docs for the class.
MeetingDocs ==
    /\ pc = "meeting"
    /\ \E c \in {<<"cm", "cma", "cmm", "cfptca", "cfptcm">>[mclass + 1]} :
       \E r \in {generate_meeting_docs(data, order, c)} :
       \E w \in {convert_docs([data |-> r.data, out |-> out], upper(c),
                               r.docs)} :
           IF r.err # NoErr
           THEN /\ err' = r.err
                /\ pc' = "failed"
                /\ UNCHANGED <<data, out, mclass, m_docs>>
           ELSE /\ data' = w.data
                /\ out' = w.out
                /\ m_docs' = r.docs
                /\ mclass' = mclass + 1
                /\ pc' = IF c = "cfptcm" THEN "lists" ELSE "meeting"
                /\ UNCHANGED err
    /\ UNCHANGED <<lines, order, changed, c_docs, cadm_docs, cpub_docs,
                   cpubx_docs, side, unitVars>>

\* WriteLists with the class of every record in the text list.
WriteListsClassOnly ==
    /\ pc = "lists"
    /\ LET desc(S) == LET asc == SortedNums(S)
                      IN  [i \in 1..Len(asc) |-> asc[Len(asc) + 1 - i]]
           ndocs == desc({n \in DOMAIN data : data[n].cid = <<>>})
           all == desc(DOMAIN data)
       IN  side' =
              {[file |-> "N-documents.json",
                content |-> [i \in 1..Len(ndocs) |->
                                [ext_id |-> ndocs[i],
                                 title |-> data[ndocs[i]].title]]],
               [file |-> "all-classes.json",
                content |-> [i \in 1..Len(all) |->
                                [ext_id |-> all[i],
                                 class |-> IF data[all[i]].class = "cpub"
                                              /\ data[all[i]].cid # <<>>
                                              /\ data[all[i]].cid[1] = "CPUBX"
                                           THEN "CPUBX"
                                           ELSE upper(data[all[i]].class)]]],
               [file |-> "tmp-papers-list.txt",
                content |-> [i \in 1..Len(order) |->
                                [ext_id |-> order[i],
                                 tag |-> <<data[order[i]].class>>]]],
               [file |-> "tmp-file-list.txt", content |-> <<>>],
               [file |-> "tmp-papers-meetings-list.txt", content |-> <<>>]}
    /\ pc' = "done"
    /\ UNCHANGED <<lines, data, order, err, changed, c_docs, cadm_docs, out,
                   cpub_docs, cpubx_docs, mclass, m_docs, unitVars>>

\* The lists written at the end: the records without identifier and all
\* records, by descending number, and the text lists in mapping order.
\* The links are left out, so tmp-file-list.txt is empty, and no record of
\* the modelled logs is listed in MEETING_TO_DOCS.
WriteLists ==
    /\ pc = "lists"
    /\ LET desc(S) == LET asc == SortedNums(S)
                      IN  [i \in 1..Len(asc) |-> asc[Len(asc) + 1 - i]]
           ndocs == desc({n \in DOMAIN data : data[n].cid = <<>>})
           all == desc(DOMAIN data)
       IN  side' =
              {[file |-> "N-documents.json",
                content |-> [i \in 1..Len(ndocs) |->
                                [ext_id |-> ndocs[i],
                                 title |-> data[ndocs[i]].title]]],
               [file |-> "all-classes.json",
                content |-> [i \in 1..Len(all) |->
                                [ext_id |-> all[i],
                                 class |-> IF data[all[i]].class = "cpub"
                                              /\ data[all[i]].cid # <<>>
                                              /\ data[all[i]].cid[1] = "CPUBX"
                                           THEN "CPUBX"
                                           ELSE upper(data[all[i]].class)]]],
               [file |-> "tmp-papers-list.txt",
                content |-> [i \in 1..Len(order) |->
                                [ext_id |-> order[i],
                                 tag |-> IF data[order[i]].cid # <<>>
                                         THEN data[order[i]].cid
                                         ELSE <<data[order[i]].class>>]]],
               [file |-> "tmp-file-list.txt", content |-> <<>>],
               [file |-> "tmp-papers-meetings-list.txt", content |-> <<>>]}
    /\ pc' = "done"
    /\ UNCHANGED <<lines, data, order, err, changed, c_docs, cadm_docs, out,
                   cpub_docs, cpubx_docs, mclass, m_docs, unitVars>>

Init == PipeInit /\ UnitInit

\* The stages of action_convert after get_ndoc_data, on mapping d iterated
\* in order ord: the result of a whole run.
ConvertFrom(d, ord) ==
    LET failed(e) == [err |-> e, data |-> d, c_docs |-> NoDocs,
                      cadm_docs |-> NoDocs, out |-> <<>>]
        cl == classify_docs(d, ord)
        c == generate_autonum_docs(cl.data, ord, "c", C_START, C_CUTOFF,
                                   C_EXTRA_EXCLUDE, C_EXTRA_INCLUDE)
        cout == convert_docs([data |-> c.data, out |-> <<>>], "C", c.docs)
        cadm == generate_autonum_docs(cout.data, ord, "cadm", CADM_START,
                                      CADM_CUTOFF, CADM_EXTRA_EXCLUDE,
                                      CADM_EXTRA_INCLUDE)
        cadmout == convert_docs([data |-> cadm.data, out |-> cout.out],
                                "CADM", cadm.docs)
    IN  IF AnnotateError(d) # NoErr THEN failed(AnnotateError(d))
        ELSE IF cl.err # NoErr THEN failed(cl.err)
        ELSE [err |-> NoErr, data |-> cadmout.data, c_docs |-> c.docs,
              cadm_docs |-> cadm.docs, out |-> cadmout.out]

\* action_convert on the log ls.
action_convert(ls) ==
    LET e == get_ndoc_data(ls)
    IN  IF e.err # NoErr
        THEN [err |-> e.err, data |-> e.data, c_docs |-> NoDocs,
              cadm_docs |-> NoDocs, out |-> <<>>]
        ELSE ConvertFrom(e.data, e.order)

Next ==
    \/ ReadLine
    \/ EndOfLog
    \/ AnnotateMeetings
    \/ Classify
    \/ GroupTitles
    \/ UpdatesLoopPass
    \/ UpdatesLoopExit
    \/ AutonumC
    \/ ConvertC
    \/ AutonumCadm
    \/ ConvertCadm

Spec == Init /\ [][Next]_vars

\* The log lines of the runs that are followed to the end of
\* action_convert.
RunLines ==
    {L998a, L999a,
     Line(N999, Raw20231115, "A", TCompositeTypes, <<>>),
     Line(N1001, Raw20231001, "A", TCompositeTypes, <<>>),
     Line(N1000, Raw20231001, "B", TBigArray, <<>>),
     Line(N1000, Raw20231001, "B", TBigArray, <<Updates(N3216)>>),
     Line(N3219, Raw20231001, "A", <<"Rationale", "Working", "Draft">>, <<>>),
     Line(N3216, Raw20231001, "A", <<"Editor", "Report">>, <<>>),
     Line(N2047, Raw20231001, "A", <<"Venue", "October", "2023">>, <<>>),
     Line(N2057, Raw20231115, "B", <<"Agenda", "October", "2023">>, <<>>),
     Line(N3700, Raw20231001, "A", TAgenda, <<>>)}

\* get_ndoc_data reads the next line of such a log.
ReadRunLine ==
    /\ pc = "extract"
    /\ Len(lines) < MaxLines
    /\ \E line \in RunLines :
          LET r == ExtractLine(data, order, line)
          IN  /\ lines' = Append(lines, line)
              /\ data' = r.data
              /\ order' = r.order
              /\ err' = r.err
              /\ pc' = IF r.err = NoErr THEN "extract" ELSE "failed"
    /\ UNCHANGED <<changed, c_docs, cadm_docs, out, lateVars, unitVars>>

NextRun ==
    \/ ReadRunLine
    \/ EndOfLog
    \/ AnnotateMeetings
    \/ Classify
    \/ GroupTitles
    \/ UpdatesLoopPass
    \/ UpdatesLoopExit
    \/ AutonumC
    \/ ConvertC
    \/ AutonumCadm
    \/ ConvertCadm
    \/ CpubDocs
    \/ MeetingDocs
    \/ WriteLists

\* action_convert from its entry to its return.
SpecRun == Init /\ [][NextRun]_vars

----------------------------------------------------------------------------
(* Properties.                                                             *)

\* classify_docs has returned.
Classified ==
    pc \in {"autonum c", "convert c", "autonum cadm", "convert cadm", "cpub"}

group(n) == data[n].group

\* An eligible record whose auxiliary title refers to an existing record.
UpdatesExisting(a, b) ==
    /\ a \in DOMAIN data /\ b \in DOMAIN data
    /\ data[a].class \in Eligible
    /\ HasUpdatesRef(data[a].auxtitle)
    /\ UpdatesRef(data[a].auxtitle) = b

\* C1: after classify_docs returns the groups partition the record mapping:
\* every record is in its own group, and every member of a record's group
\* is a record with the same group.
C1_GroupsPartition ==
    Classified =>
        \A a \in DOMAIN data :
            /\ a \in group(a)
            /\ \A b \in group(a) :
                  /\ b \in DOMAIN data
                  /\ a \in group(b)
                  /\ group(b) = group(a)

\* A partition with a group that an "updates" reference merged from records
\* of different titles, beside another group.
C1_Witness ==
    /\ Classified
    /\ \E a, b, c \in DOMAIN data :
          /\ UpdatesExisting(a, b)
          /\ a # b
          /\ GroupTitle(a, data[a]) # GroupTitle(b, data[b])
          /\ Cardinality(group(a)) >= 2
          /\ c \notin group(a)

\* C3: after classify_docs returns, when eligible A updates eligible B, and
\* C is in B's group or is updated by B, then A, B and C have one and the
\* same group.
C3_UpdateChainsClosed ==
    Classified =>
        \A a, b, c \in DOMAIN data :
            (/\ UpdatesExisting(a, b)
             /\ data[b].class \in Eligible
             /\ data[c].class \in Eligible
             /\ (c \in group(b) \/ UpdatesExisting(b, c)))
            => (group(a) = group(b) /\ group(b) = group(c))

\* A chain of three distinct records, A updating B and B updating C, whose
\* record numbers are not in chain order.
C3_Witness ==
    /\ Classified
    /\ \E a, b, c \in DOMAIN data :
          /\ a # b /\ b # c /\ a # c
          /\ UpdatesExisting(a, b)
          /\ UpdatesExisting(b, c)
          /\ data[c].class \in Eligible
          /\ int(a) > int(b)
          /\ int(b) < int(c)
          /\ group(a) = {a, b, c}

\* The run has passed convert_docs for both auto-numbered classes.
Assigned == pc = "cpub"

\* The orders in which the mapping of a run can be iterated.
Orders(ord) ==
    {p \in [1..Len(ord) -> {ord[i] : i \in 1..Len(ord)}] :
        \A i, j \in 1..Len(ord) : p[i] = p[j] => i = j}

\* C4: a run that iterates the same records in any other order ends with
\* the same groups, the same documents with the same identifiers, and the
\* same revision of every record.
C4_OrderIndependent ==
    Assigned =>
        \A p \in Orders(order) :
            LET r == ConvertFrom(get_ndoc_data(lines).data, p)
            IN  /\ r.err = NoErr
                /\ r.data = data
                /\ r.c_docs = c_docs
                /\ r.cadm_docs = cadm_docs
                /\ r.out = out

\* Two documents of one class whose groups have the same earliest date, in
\* a mapping whose order is not the order of the record numbers.
C4_Witness ==
    /\ Assigned
    /\ Len(c_docs) = 2
    /\ c_docs[1].sortkey[1] = c_docs[2].sortkey[1]
    /\ \E i, j \in 1..Len(order) : i < j /\ int(order[i]) > int(order[j])
    /\ \E n \in DOMAIN data : Cardinality(group(n)) >= 2

\* The lines that can be appended to a log: a number larger and a date
\* later than any in the modelled logs, any title, and no reference or a
\* reference to a record of the log.
NewLines(d) ==
    {Line(N3700, Raw20240115, "N", words, markers) :
        words \in {TCompositeTypes, TBigArray, TCharter, TDefer},
        markers \in {<<>>} \cup {<<Updates(n)>> : n \in DOMAIN d}}

\* C2: a run on the log with one later record appended gives every record
\* that had a revision identifier the same identifier.
C2_StableUnderAppend ==
    Assigned =>
        \A line \in NewLines(data) :
            LET r == action_convert(Append(lines, line))
            IN  r.err = NoErr =>
                    \A n \in DOMAIN data :
                        data[n].cid # <<>> => r.data[n].cid = data[n].cid

\* The revisions of all metadata.json files written for the auto-numbered
\* classes.
AutonumOut == {i \in 1..Len(out) : out[i].dir \in {"C", "CADM"}}

\* C5: the revisions of an auto-numbered document are all the records of
\* its group, numbered 1..N in the order of the list, and the list is in
\* ascending order of int(record number).
C5_RevisionsDense ==
    \A i \in AutonumOut :
        LET revs == out[i].json.revisions
        IN  /\ Len(revs) >= 1
            /\ Len(revs) = Cardinality(group(revs[1].ext_id))
            /\ \A k \in 1..Len(revs) :
                  /\ revs[k].ext_id \in group(revs[1].ext_id)
                  /\ revs[k].rev_id = <<"r", k>>
                  /\ revs[k].id = out[i].json.id \o <<"r", k>>
            /\ \A k, l \in 1..Len(revs) :
                  k < l => int(revs[k].ext_id) < int(revs[l].ext_id)

\* A document whose revisions are N999 and N1000, which string comparison
\* puts in the opposite order.
C5_Witness ==
    \E i \in AutonumOut :
        LET revs == out[i].json.revisions
        IN  /\ Len(revs) >= 2
            /\ revs[1].ext_id = N999
            /\ revs[2].ext_id = N1000

\* The class, the cutoff date and the day before it, and the include and
\* exclude sets of the two auto-numbered classes.
C_CUTOFF_EVE == <<"2", "0", "2", "3", "-", "0", "9", "-", "3", "0">>
CADM_CUTOFF_EVE == <<"2", "0", "2", "3", "-", "0", "8", "-", "3", "1">>
AutonumClasses ==
    {[class |-> "c", cutoff |-> C_CUTOFF, eve |-> C_CUTOFF_EVE,
      include |-> C_EXTRA_INCLUDE, exclude |-> C_EXTRA_EXCLUDE],
     [class |-> "cadm", cutoff |-> CADM_CUTOFF, eve |-> CADM_CUTOFF_EVE,
      include |-> CADM_EXTRA_INCLUDE, exclude |-> CADM_EXTRA_EXCLUDE]}

\* Record n has an identifier of class cls.
HasIdOf(n, cls) == data[n].cid # <<>> /\ data[n].cid[1] = upper(cls)

IsMaxOfGroup(n) == int(n) = MaxInt(group(n))

\* C6 as stated: every record of an auto-numbered class dated exactly at the
\* cutoff has an identifier of the class, and every one dated the day before
\* and not in the include set has no identifier.
C6_CutoffAsStated ==
    Assigned =>
        \A k \in AutonumClasses : \A n \in DOMAIN data :
            data[n].class = k.class =>
                /\ data[n].date = k.cutoff => HasIdOf(n, k.class)
                /\ (data[n].date = k.eve /\ n \notin k.include)
                       => data[n].cid = <<>>

\* C6, amended: the same for a record that is the maximum-numbered member
\* of its group, when the record dated at the cutoff is not in the exclude
\* set.
C6_CutoffOfMaxMember ==
    Assigned =>
        \A k \in AutonumClasses : \A n \in DOMAIN data :
            (data[n].class = k.class /\ IsMaxOfGroup(n)) =>
                /\ (data[n].date = k.cutoff /\ n \notin k.exclude)
                       => HasIdOf(n, k.class)
                /\ (data[n].date = k.eve /\ n \notin k.include)
                       => data[n].cid = <<>>
                /\ (data[n].date = k.eve /\ n \in k.include)
                       => HasIdOf(n, k.class)

\* A run with a record at the cutoff that has an identifier, and a record
\* of the same class the day before that has none.
C6_Witness ==
    /\ Assigned
    /\ \E k \in AutonumClasses : \E n, m \in DOMAIN data :
          /\ data[n].class = k.class /\ data[m].class = k.class
          /\ IsMaxOfGroup(n) /\ IsMaxOfGroup(m)
          /\ data[n].date = k.cutoff /\ HasIdOf(n, k.class)
          /\ data[m].date = k.eve /\ m \notin k.include
          /\ data[m].cid = <<>>

\* C7: after classify_docs a record with an entry in OVERRIDE_CLASS has the
\* class of the entry, and any other record the class of the heuristics.
C7_OverridePrecedence ==
    Classified =>
        \A n \in DOMAIN data :
            data[n].class =
                IF n \in DOMAIN OVERRIDE_CLASS
                THEN OVERRIDE_CLASS[n]
                ELSE HeuristicClass(data[n].title.words)

\* Two overridden records, one whose heuristic class is the default and one
\* whose heuristic class is a specific other class, beside a record that is
\* not overridden.
C7_Witness ==
    /\ Classified
    /\ \E n, m, k \in DOMAIN data :
          /\ n \in DOMAIN OVERRIDE_CLASS
          /\ HeuristicClass(data[n].title.words) = "c"
          /\ data[n].class = "cadm"
          /\ m \in DOMAIN OVERRIDE_CLASS
          /\ HeuristicClass(data[m].title.words) = "cma"
          /\ data[m].class = "cpub"
          /\ k \notin DOMAIN OVERRIDE_CLASS

\* Lines i < j of the log are both assigned lines of a recognized layout
\* with the same record number.
SameNumber(i, j) ==
    /\ i < j
    /\ lines[i].layout \in {"nolink", "link"}
    /\ lines[j].layout \in {"nolink", "link"}
    /\ lines[i].assigned /\ lines[j].assigned
    /\ lines[i].nnum = lines[j].nnum

Duplicate(nnum) == Err("duplicate", nnum, "get_ndoc_data")

Test(all, any, class) == [all |-> all, any |-> any, class |-> class]
Phrase(p, class) == Test({p}, {}, class)

C8_Tests ==
    <<Phrase(<<"working", "draft">>, "cpub"),
      Phrase(<<"committee", "draft">>, "cpub"),
      Phrase(<<"editor's", "report">>, "cpub"),
      Phrase(<<"editor", "report">>, "cpub"),
      Phrase(<<"editor", "progress", "report">>, "cpub"),
      Phrase(<<"dts", "draft">>, "cpub"),
      Phrase(<<"revision", "draft">>, "cpub"),
      Phrase(<<"dis", "draft">>, "cpub"),
      Phrase(<<"examples", "of", "undefined", "behavior">>, "cpub"),
      Phrase(<<"ts", "proposal">>, "cpub"),
      Phrase(<<"generalized", "function", "calls">>, "cpub"),
      Phrase(<<"compendium">>, "cpub"),
      Phrase(<<"cr", "summary">>, "cpub"),
      Phrase(<<"clarification", "request", "summary">>, "cpub"),
      Phrase(<<"dr", "report">>, "cpub"),
      Phrase(<<"defect", "report", "summary">>, "cpub"),
      Phrase(<<"thread-based", "parallelism">>, "cpub"),
      Phrase(<<"latex">>, "cpub"),
      Phrase(<<"dts", "17961">>, "cpub"),
      Phrase(<<"wdtr">>, "cpub"),
      Phrase(<<"issue", "log">>, "cpub"),
      Phrase(<<"educational", "undefined", "behavior">>, "cpub"),
      Test({<<"fp", "teleconference">>, <<"agenda">>}, {}, "cfptca"),
      Phrase(<<"c", "floating", "point", "study", "group",
               "teleconference">>, "cfptca"),
      Test({<<"fp", "teleconference">>}, {<<"minutes">>, <<"notes">>},
           "cfptcm"),
      Phrase(<<"fp", "meeting", "minutes">>, "cfptcm"),
      Phrase(<<"agenda">>, "cma"),
      Phrase(<<"minutes">>, "cmm"),
      Phrase(<<"agneda">>, "cma"),
      Phrase(<<"venue">>, "cm"),
      Phrase(<<"invitation">>, "cm"),
      Phrase(<<"meeting", "information">>, "cm"),
      Phrase(<<"hotel">>, "cm"),
      Phrase(<<"charter">>, "cadm"),
      Phrase(<<"schedule">>, "cadm"),
      Phrase(<<"liaison", "report">>, "cadm"),
      Phrase(<<"liaison", "statement">>, "cadm"),
      Phrase(<<"compat", "teleconference">>, "cadm"),
      Phrase(<<"omnibus">>, "cadm"),
      Phrase(<<"business", "plan">>, "cadm"),
      Phrase(<<"standing", "document">>, "cadm"),
      Phrase(<<"misra">>, "cadm"),
      Phrase(<<"call", "for">>, "cadm"),
      Phrase(<<"progress", "report">>, "cadm"),
      Phrase(<<"annual", "report">>, "cadm")>>

C8_Holds(i, t) ==
    /\ \A p \in C8_Tests[i].all : Contains(t, p)
    /\ C8_Tests[i].any = {} \/ \E p \in C8_Tests[i].any : Contains(t, p)

\* C8: the heuristic class of a title is the class of the earliest test of
\* the list that holds of the lower-cased main title, and "c" when none
\* holds; so a title with "fp teleconference" and "agenda" is never "cma",
\* and is "cfptca" unless a publication phrase comes first, and a title
\* with "working draft" is "cpub".
C8_FirstMatchWins ==
    upc = "classified" =>
        LET t == lower(ures.maintitle)
            hits == {i \in 1..Len(C8_Tests) : C8_Holds(i, t)}
        IN  /\ ures.heuristic \in {"c", "cadm", "cpub", "cm", "cma", "cmm",
                                   "cfptca", "cfptcm"}
            /\ hits = {} => ures.heuristic = "c"
            /\ \A i \in hits :
                  (\A j \in hits : i <= j) =>
                      ures.heuristic = C8_Tests[i].class
            /\ (Contains(t, <<"fp", "teleconference">>)
                /\ Contains(t, <<"agenda">>))
                   => ures.heuristic \in {"cfptca", "cpub"}
            /\ Contains(t, <<"working", "draft">>) => ures.heuristic = "cpub"

\* A title with "fp teleconference" and "agenda" classified cfptca, written
\* with capitals.
C8_Witness ==
    /\ upc = "classified"
    /\ ures.maintitle = <<"FP", "Teleconference", "Agenda">>
    /\ ures.heuristic = "cfptca"

\* The day a written date denotes: the year as written, or 20YY for a two
\* digit year beginning with 0 and 19YY for one beginning with 8 or 9.
C10_Year(w) ==
    IF w.fmt \in {"YYYY/MM/DD", "DD-Mon-YYYY"} THEN w.year
    ELSE IF w.year[1] = "0" THEN <<"2", "0">> \o w.year
    ELSE <<"1", "9">> \o w.year

C10_Canonical(w) ==
    C10_Year(w) \o <<"-">> \o MonthDigits(w.month) \o <<"-">> \o w.day

\* The written dates of the supported grammars: a month of the year, a day
\* beginning with 0 to 3, white space after the date, and a year of the
\* format's range (20YY/MM/DD up to 2029; DD-Mon-YYYY for 2001 to 2005; two
\* digits beginning with 0, 8 or 9, with either separator).
C10_InGrammar(w) ==
    /\ w.month \in {"Jan", "Oct", "Dec"}
    /\ w.day[1] \in {"0", "1", "2", "3"}
    /\ w.tail # <<>>
    /\ CASE w.fmt = "YYYY/MM/DD" ->
                 /\ SubSeq(w.year, 1, 2) = <<"2", "0">>
                 /\ w.year[3] \in {"0", "1", "2"}
          [] w.fmt = "DD-Mon-YYYY" ->
                 /\ SubSeq(w.year, 1, 3) = <<"2", "0", "0">>
                 /\ w.year[4] \in {"1", "2", "3", "4", "5"}
          [] OTHER -> w.year[1] \in {"0", "8", "9"}

\* C10: a date written in a supported grammar parses to the canonical
\* YYYY-MM-DD of the day it denotes, whatever the grammar, and any other
\* date segment raises the 'could not parse date' error.
C10_DateGrammar ==
    upc = "date parsed" =>
        IF C10_InGrammar(uarg.written)
        THEN ures = [kind |-> "ok", date |-> C10_Canonical(uarg.written)]
        ELSE ures.kind = "could not parse date"

\* The same without the last part: what is parsed is parsed to the canonical
\* date of the day, and exactly the dates of the grammars are parsed.
C10_ParsedDates ==
    upc = "date parsed" =>
        /\ C10_InGrammar(uarg.written)
               => ures = [kind |-> "ok",
                          date |-> C10_Canonical(uarg.written)]
        /\ ~C10_InGrammar(uarg.written) => ures.kind # "ok"

\* A line that matches neither layout, or whose text after the number does
\* not start with a date of a recognized grammar.
Malformed(line) ==
    \/ line.layout \notin {"nolink", "link"}
    \/ line.assigned /\ ParseDate(line.date).kind # "ok"

\* C14: when the line just read is malformed the run has ended with an
\* error whose message carries the text of the line (the whole line, or
\* the line from the date on) and nothing has been written.
C14_MalformedLine ==
    (lines # <<>> /\ Malformed(lines[Len(lines)])) =>
        /\ pc = "failed"
        /\ out = <<>>
        /\ err.msg \in {"could not parse line", "could not parse date"}
        /\ err.msg = "could not parse line" => err.arg = <<lines[Len(lines)]>>
        /\ err.msg = "could not parse date"
               => err.arg = <<Rest(lines[Len(lines)])>>

\* The same without the content of the message when the month is not in
\* the table: the run has ended in get_ndoc_data and nothing has been
\* written; the message carries the line for a line of neither layout, the
\* line from the date on for 'could not parse date', and only the three
\* letters for the KeyError.
C14_AbortsWithoutOutput ==
    (lines # <<>> /\ Malformed(lines[Len(lines)])) =>
        LET line == lines[Len(lines)]
        IN  /\ pc = "failed"
            /\ out = <<>>
            /\ err.at = "get_ndoc_data"
            /\ err.msg \in {"could not parse line", "could not parse date",
                             "KeyError"}
            /\ err.msg = "could not parse line" => err.arg = <<line>>
            /\ err.msg = "could not parse date" => err.arg = <<Rest(line)>>
            /\ err.msg = "KeyError" => err.arg = <<SubSeq(line.date, 4, 6)>>

\* The selection rule applied to record m for the auto-numbered class k.
Selects(k, m) ==
    \/ StrGE(data[m].date, k.cutoff) /\ m \notin k.exclude
    \/ m \in k.include

\* The documents generate_autonum_docs returned for class k.
DocsOf(k) == IF k.class = "c" THEN c_docs ELSE cadm_docs

\* C17: after both calls of generate_autonum_docs, for the maximum-numbered
\* member m of every group and each auto-numbered class, the group is among
\* the documents of the class exactly when m has the class and the rule
\* selects m; and when m has the class every member of the group carries
\* the flag the rule gives for m.
C17_SelectionByMaxMember ==
    Assigned =>
        \A m \in DOMAIN data : IsMaxOfGroup(m) =>
            \A k \in AutonumClasses :
                /\ (\E i \in 1..Len(DocsOf(k)) :
                        DocsOf(k)[i].nums = SortedNums(group(m)))
                   <=> (data[m].class = k.class /\ Selects(k, m))
                /\ data[m].class = k.class =>
                       \A n \in group(m) :
                           data[n].convert_doc = <<Selects(k, m)>>

\* A group that is not selected although a member other than the maximum is
\* in the include set: the maximum is after the cutoff but excluded.
C17_Witness ==
    /\ Assigned
    /\ \E k \in AutonumClasses : \E m, n \in DOMAIN data :
          /\ m # n /\ n \in group(m) /\ IsMaxOfGroup(m)
          /\ data[m].class = k.class
          /\ n \in k.include /\ m \in k.exclude
          /\ StrGE(data[m].date, k.cutoff)
          /\ data[n].convert_doc = <<FALSE>>
          /\ data[n].cid = <<>>

\* The mapping of a run of classify_docs on its own, once it has returned.
Grouped == upc = "grouped"
gdata == ures.data
ggroup(n) == ures.data[n].group

\* Record a is eligible and its auxiliary title refers to b.
GRefers(a, b) ==
    /\ gdata[a].class \in Eligible
    /\ HasUpdatesRef(gdata[a].auxtitle)
    /\ UpdatesRef(gdata[a].auxtitle) = b

\* No record of the set g refers to a record or is referred to.
GUpdatesFree(g) ==
    \A x \in DOMAIN gdata : \A y \in g : ~GRefers(x, y) /\ ~GRefers(y, x)

\* C11 as stated: two eligible records with the same main title, one of
\* them with a grouping-key override, in a mapping without any "updates"
\* reference, are each alone in their group.
C11_SingletonsAsStated ==
    Grouped =>
        \A a, b \in DOMAIN gdata :
            (/\ a # b
             /\ gdata[a].class \in Eligible /\ gdata[b].class \in Eligible
             /\ gdata[a].maintitle = gdata[b].maintitle
             /\ a \in DOMAIN OVERRIDE_GROUP_TITLE
             /\ GUpdatesFree(DOMAIN gdata))
            => (ggroup(a) = {a} /\ ggroup(b) = {b})

\* C11, amended: a record with a grouping-key override and a record without
\* one that shares its main title (a title other than the override key) are
\* in different groups when no "updates" reference touches their groups;
\* the group of the overridden record is then the set of records with its
\* grouping key, so it is alone when no other record has that key.
C11_OverriddenKeptApart ==
    Grouped =>
        \A a, b \in DOMAIN gdata :
            (/\ a # b
             /\ gdata[a].class \in Eligible /\ gdata[b].class \in Eligible
             /\ gdata[a].maintitle = gdata[b].maintitle
             /\ a \in DOMAIN OVERRIDE_GROUP_TITLE
             /\ b \notin DOMAIN OVERRIDE_GROUP_TITLE
             /\ gdata[a].maintitle # OVERRIDE_GROUP_TITLE[a]
             /\ GUpdatesFree(ggroup(a)) /\ GUpdatesFree(ggroup(b)))
            => /\ b \notin ggroup(a) /\ a \notin ggroup(b)
               /\ ggroup(a) = by_title(gdata, OVERRIDE_GROUP_TITLE[a])

\* Three records titled "Composite types", N3141 among them, and no
\* reference: N3141 is alone and the other two are together.
C11_Witness ==
    /\ Grouped
    /\ DOMAIN gdata = {N999, N1000, N3141}
    /\ \A n \in DOMAIN gdata :
          gdata[n].maintitle = TCompositeTypes /\ gdata[n].auxtitle = NoAux
    /\ ggroup(N3141) = {N3141}
    /\ ggroup(N999) = {N999, N1000}

\* C18 as stated: after classify_docs every record of an ineligible class
\* is alone in its group and no group of an eligible record holds a record
\* of an ineligible class.
C18_OnlyEligibleAsStated ==
    Grouped =>
        \A n \in DOMAIN gdata :
            IF gdata[n].class \in Eligible
            THEN \A m \in ggroup(n) : gdata[m].class \in Eligible
            ELSE ggroup(n) = {n}

\* C18, amended: a record of an ineligible class that no eligible record
\* refers to with "updates" is alone in its group and in no other group,
\* whatever its own auxiliary title refers to.
C18_UnreferencedIneligibleAlone ==
    Grouped =>
        \A k \in DOMAIN gdata :
            (/\ gdata[k].class \notin Eligible
             /\ \A a \in DOMAIN gdata : ~GRefers(a, k))
            => /\ ggroup(k) = {k}
               /\ \A n \in DOMAIN gdata \ {k} : k \notin ggroup(n)

\* An agenda that refers to an eligible record stays alone, while another
\* agenda that an eligible record refers to is in that record's group.
C18_Witness ==
    /\ Grouped
    /\ \E k, a, j \in DOMAIN gdata :
          /\ gdata[k].class = "cma" /\ gdata[j].class = "cma" /\ k # j
          /\ gdata[a].class = "c"
          /\ HasUpdatesRef(gdata[k].auxtitle)
          /\ UpdatesRef(gdata[k].auxtitle) = a
          /\ GRefers(a, j)
          /\ ggroup(k) = {k}
          /\ ggroup(a) = {a, j}
          /\ ggroup(j) = {a, j}

\* Every "updates" reference of the mapping names a record of the mapping.
GAllRefsExist ==
    \A a \in DOMAIN gdata :
        HasUpdatesRef(gdata[a].auxtitle) =>
            UpdatesRef(gdata[a].auxtitle) \in DOMAIN gdata

\* C20: when every referenced record exists, the "while changed" loop of
\* classify_docs comes to its exit, self-references and cycles included;
\* it fails only on a reference to a missing record; and at its exit one
\* more pass over all records changes no group.
C20_UpdatesLoopTerminates ==
    /\ (upc = "updates" /\ GAllRefsExist) ~> Grouped
    /\ [](upc = "failed" => ~GAllRefsExist)
    /\ [](Grouped =>
            LET r == UpdatesPass(gdata, uarg.order)
            IN  r.data = gdata /\ ~r.changed /\ r.err = NoErr)

\* The loop has exited after more than one pass on a mapping where N999
\* updates itself and N1000 and N3141 update each other.
C20_Witness ==
    /\ Grouped
    /\ ures.passes >= 2
    /\ DOMAIN gdata = {N999, N1000, N3141}
    /\ GRefers(N999, N999)
    /\ GRefers(N1000, N3141)
    /\ GRefers(N3141, N1000)
    /\ ggroup(N1000) = ggroup(N3141)

\* The positions of the revisions in the files written: file, edition (0
\* in a file without editions), revision.
RevSlots ==
    UNION {IF out[i].dir = "CPUB"
           THEN UNION {{<<i, j, k>> :
                           k \in 1..Len(out[i].json.editions[j].revisions)} :
                       j \in 1..Len(out[i].json.editions)}
           ELSE {<<i, 0, k>> : k \in 1..Len(out[i].json.revisions)} :
           i \in 1..Len(out)}

RevAt(s) ==
    IF s[2] = 0 THEN out[s[1]].json.revisions[s[3]]
    ELSE out[s[1]].json.editions[s[2]].revisions[s[3]]

EditionSlots ==
    UNION {IF out[i].dir = "CPUB"
           THEN {<<i, j>> : j \in 1..Len(out[i].json.editions)}
           ELSE {} :
           i \in 1..Len(out)}

\* C12: at every point of a run, the identifiers written so far are
\* pairwise distinct as text: those of the documents of all classes, those
\* of the CPUB editions, and those of the revisions.
C12_IdentifiersDistinct ==
    /\ \A i, j \in 1..Len(out) :
          i # j => IdText(out[i].json.id) # IdText(out[j].json.id)
    /\ \A s, t \in EditionSlots :
          s # t => IdText(out[s[1]].json.editions[s[2]].id)
                   # IdText(out[t[1]].json.editions[t[2]].id)
    /\ \A s, t \in RevSlots :
          s # t => IdText(RevAt(s).id) # IdText(RevAt(t).id)

\* A run has returned after writing documents of the classes C, CPUB, CM
\* and CMA, a CM document with two revisions among them.
C12_Witness ==
    /\ pc = "done"
    /\ \A dir \in {"C", "CPUB", "CM", "CMA"} :
          \E i \in 1..Len(out) : out[i].dir = dir
    /\ \E i \in 1..Len(out) :
          out[i].dir = "CM" /\ Len(out[i].json.revisions) = 2

\* generate_cpub_docs has been called in this run.
CpubCalled ==
    \/ pc \in {"meeting", "lists", "done"}
    \/ pc = "failed"
       /\ err.at \in {"generate_cpub_docs", "generate_meeting_docs"}

\* The CPUB documents are those of the catalog: one per position, with the
\* catalog's title and edition numbers in catalog order, in the list
\* returned and in the files written.
CatalogEmitted ==
    LET written == SelectSeq(out, LAMBDA f : f.dir = "CPUB")
    IN  /\ Len(cpub_docs) = Len(CPUB_DOCS)
        /\ Len(written) = Len(CPUB_DOCS)
        /\ \A n \in 1..Len(CPUB_DOCS) :
              LET eds == CPUB_DOCS[n].editions
              IN  /\ cpub_docs[n].id = <<"CPUB", n>>
                  /\ cpub_docs[n].title = CPUB_DOCS[n].title
                  /\ [j \in 1..Len(cpub_docs[n].editions) |->
                         cpub_docs[n].editions[j].edition_num]
                     = [j \in 1..Len(eds) |-> eds[j].number]
                  /\ written[n].json.id = <<"CPUB", n>>
                  /\ written[n].json.title = CPUB_DOCS[n].title
                  /\ [j \in 1..Len(written[n].json.editions) |->
                         written[n].json.editions[j].id]
                     = [j \in 1..Len(eds) |->
                           <<"CPUB", n, "e", eds[j].number>>]

C15_NoPartialOutput ==
    pc = "failed" => out = <<>> /\ side = {}

\* What holds of a failed run: the side indexes are never written, and
\* nothing at all is written when the error is raised in extraction or in
\* classification and grouping; an error raised in generate_cpub_docs or
\* in generate_meeting_docs leaves the files of the classes converted
\* before it.
C15_FailedRunOutput ==
    pc = "failed" =>
        /\ side = {}
        /\ err.at \in {"get_ndoc_data", "classify_docs"} => out = <<>>
        /\ err.at = "generate_cpub_docs" =>
              \A i \in 1..Len(out) : out[i].dir \in {"C", "CADM"}
        /\ err.at = "generate_meeting_docs" =>
              Len(SelectSeq(out, LAMBDA f : f.dir = "CPUB")) = Len(CPUB_DOCS)

\* The earliest date among the records of a document, and the smallest
\* record number among them.
EarliestDate(doc) ==
    LET dates == {data[doc.nums[i]].date : i \in 1..Len(doc.nums)}
    IN  CHOOSE k \in dates : \A other \in dates : ~StrLess(other, k)

SmallestMember(doc) ==
    LET nums == {int(doc.nums[i]) : i \in 1..Len(doc.nums)}
    IN  CHOOSE k \in nums : \A other \in nums : k <= other

\* The smallest record number among the records of a document that have
\* its earliest date.
SmallestEarliest(doc) ==
    LET nums == {int(doc.nums[i]) :
                    i \in {j \in 1..Len(doc.nums) :
                              data[doc.nums[j]].date = EarliestDate(doc)}}
    IN  CHOOSE k \in nums : \A other \in nums : k <= other

\* The documents of a class have the identifiers base, base + 1, ... in
\* the order of the list.
Consecutive(docs, cls, base) ==
    \A i \in 1..Len(docs) : docs[i].id = <<cls, base + i - 1>>

\* The list is in the order of the keys key(doc).
OrderedBy(docs, key(_)) ==
    \A i, j \in 1..Len(docs) :
        KeyLess(key(docs[i]), key(docs[j])) => i < j

\* C16 as stated: the documents of an auto-numbered class are numbered
\* consecutively from the base in the order of the pair (earliest date in
\* the group, numerically smallest member of the group).
C16_OrderAsStated ==
    LET key(doc) == <<EarliestDate(doc), SmallestMember(doc)>>
    IN  /\ Consecutive(c_docs, "C", C_START)
        /\ Consecutive(cadm_docs, "CADM", CADM_START)
        /\ OrderedBy(c_docs, key)
        /\ OrderedBy(cadm_docs, key)

\* C16: the documents of an auto-numbered class are numbered consecutively
\* from the base (4000 for C, 1 for CADM) in the order of the smallest pair
\* (date, record number) of the group: by earliest date, and for equal
\* earliest dates by the smallest number among the members that have that
\* date.
C16_OrderByMinPair ==
    LET key(doc) == <<EarliestDate(doc), SmallestEarliest(doc)>>
    IN  /\ Consecutive(c_docs, "C", C_START)
        /\ Consecutive(cadm_docs, "CADM", CADM_START)
        /\ OrderedBy(c_docs, key)
        /\ OrderedBy(cadm_docs, key)

\* Two C documents with the same earliest date, where the second holds
\* the smallest record number of the two groups, on a later date.
C16_Witness ==
    /\ pc = "done"
    /\ Len(c_docs) = 2
    /\ EarliestDate(c_docs[1]) = EarliestDate(c_docs[2])
    /\ SmallestMember(c_docs[2]) < SmallestMember(c_docs[1])
    /\ SmallestEarliest(c_docs[1]) < SmallestEarliest(c_docs[2])

\* C19: over a whole run, no record number is in the revision lists of two
\* documents, of one class or of two, so every record has at most one
\* revision identifier.
C19_OneDocumentPerRecord ==
    \A s, t \in RevSlots :
        s # t => RevAt(s).ext_id # RevAt(t).ext_id

\* What holds: a record is in two revision lists only when it is listed in
\* MEETING_DOC_GROUPS as a later version of a cm document and is itself
\* of another class; two documents then name it, and its cid is the
\* revision identifier written last.
C19_OnlyListedVersionsTwice ==
    \A s, t \in RevSlots :
        (s # t /\ RevAt(s).ext_id = RevAt(t).ext_id) =>
            /\ RevAt(s).ext_id = N2057
            /\ data[N2057].class # "cm"
            /\ {out[s[1]].dir, out[t[1]].dir} = {"CM", upper(data[N2057].class)}

\* generate_cpub_docs and convert_cpub_docs have returned for the mapping.
Placed == upc = "placed"

\* e is the number of the last edition of catalog entry n whose cutoff is
\* not after the date, or of the first edition when there is none.
LastCutoffEdition(n, e, date) ==
    LET eds == CPUB_DOCS[n].editions
        ok(j) == eds[j].cutoff # <<>> /\ ~StrLess(date, eds[j].cutoff)
    IN  \E j \in 1..Len(eds) :
            /\ eds[j].number = e
            /\ \/ ok(j) /\ \A k \in 1..Len(eds) : k > j => ~ok(k)
               \/ j = 1 /\ \A k \in 1..Len(eds) : ~ok(k)

\* C21: a cpub record without an edition override is in the last edition
\* of its catalog entry whose cutoff is <= its date, in the first edition
\* when there is none; the record with an edition override (N3219: 5) is
\* in the edition of the override.  For an auxiliary record the edition
\* is the one its cpub_edition names.
C21_EditionByCutoff ==
    Placed =>
        /\ \A n \in 1..Len(ures.docs) :
           \A j \in 1..Len(ures.docs[n].editions) :
              LET ed == ures.docs[n].editions[j]
              IN  \A i \in 1..Len(ed.nums) :
                      IF ed.nums[i] = N3219 THEN ed.edition_num = 5
                      ELSE LastCutoffEdition(n, ed.edition_num,
                                             ures.data[ed.nums[i]].date)
        /\ \A k \in 1..Len(ures.xdocs) :
              LET x == ures.xdocs[k].nums[1]
                  n == ures.xdocs[k].id[2]
                  e == ures.data[x].cpub_edition
              IN  /\ e[1] = "CPUB" /\ e[2] = n /\ e[3] = "e"
                  /\ IF x = N3219 THEN e[4] = 5
                     ELSE LastCutoffEdition(n, e[4], ures.data[x].date)

\* N3219, dated before every cutoff, is in edition 5 of the standard, and
\* another record is in an edition whose cutoff is its date.
C21_Witness ==
    /\ Placed
    /\ N3219 \in DOMAIN ures.data
    /\ ures.data[N3219].date = D19900601
    /\ \E j \in 1..Len(ures.docs[CPUB_STD].editions) :
          /\ ures.docs[CPUB_STD].editions[j].edition_num = 5
          /\ ures.docs[CPUB_STD].editions[j].nums = <<N3219>>
    /\ \E n \in 1..Len(ures.docs) :
       \E j \in 1..Len(ures.docs[n].editions) :
          LET ed == ures.docs[n].editions[j]
          IN  /\ ed.nums # <<>>
              /\ ed.nums[1] # N3219
              /\ j > 1
              /\ CPUB_DOCS[n].editions[j].cutoff = ures.data[ed.nums[1]].date

\* The places of record x in the files written by the harness: the
\* revisions of the editions of the CPUB documents, and the revisions of
\* the CPUBX documents.
EditionPlaces(x) ==
    UNION {UNION {{<<i, j, k>> :
                      k \in {r \in 1..Len(ures.out[i].json.editions[j].revisions) :
                                ures.out[i].json.editions[j].revisions[r].ext_id = x}} :
                  j \in 1..Len(ures.out[i].json.editions)} :
           i \in {f \in 1..Len(ures.out) : ures.out[f].dir = "CPUB"}}

AuxPlaces(x) ==
    UNION {{<<i, k>> :
               k \in {r \in 1..Len(ures.out[i].json.revisions) :
                         ures.out[i].json.revisions[r].ext_id = x}} :
           i \in {f \in 1..Len(ures.out) : ures.out[f].dir = "CPUBX"}}

\* The identifiers of the editions written.
EditionIds ==
    UNION {{ures.out[i].json.editions[j].id :
               j \in 1..Len(ures.out[i].json.editions)} :
           i \in {f \in 1..Len(ures.out) : ures.out[f].dir = "CPUB"}}

\* Record x is in one place: a revision of one edition, or the only
\* revision, r1, of a CPUBX document of its own.
OnePlace(x) ==
    /\ Cardinality(EditionPlaces(x)) + Cardinality(AuxPlaces(x)) = 1
    /\ \A p \in AuxPlaces(x) :
          LET json == ures.out[p[1]].json
          IN  /\ Len(json.revisions) = 1
              /\ json.id[1] = "CPUBX"
              /\ json.revisions[1].id = json.id \o <<"r", 1>>
              /\ ures.data[x].cid = json.revisions[1].id

\* The edition an auxiliary record is linked to is one of its catalog
\* entry and has been written.
LinkedEditionExists(x) ==
    \A p \in AuxPlaces(x) :
        LET json == ures.out[p[1]].json
            e == json.revisions[1].cpub_edition
        IN  /\ e = ures.data[x].cpub_edition
            /\ e[2] = json.id[2]
            /\ e \in EditionIds

\* C22: every cpub record is emitted in exactly one place, a revision of
\* one edition of one catalog entry or the revision r1 of its own CPUBX
\* document, and the cpub-edition of every auxiliary record is the
\* identifier of an emitted edition of its catalog entry.
C22_OnePlaceLinkedEdition ==
    Placed =>
        \A x \in {y \in DOMAIN ures.data : ures.data[y].class = "cpub"} :
            OnePlace(x) /\ LinkedEditionExists(x)

\* What holds: every cpub record is in exactly one place, and only the
\* cpub-edition of an auxiliary record with an edition override can name
\* an edition that its catalog entry does not have.
C22_OnePlace ==
    Placed =>
        \A x \in {y \in DOMAIN ures.data : ures.data[y].class = "cpub"} :
            /\ OnePlace(x)
            /\ x # N3219 => LinkedEditionExists(x)

\* The documents of the meeting classes have been generated and written.
Met == upc = "met"

\* The meeting key of record x of a meeting class.
MeetingKey(x) ==
    LET m == MeetingDate(x, ures.data[x], ures.data[x].class)
    IN  m.year \o m.month

\* The files written for class c.
FilesOf(c) == SelectSeq(ures.out, LAMBDA f : f.dir = upper(c))

\* C23: for each of the classes cma, cmm, cfptca and cfptcm, the records
\* of the class with one meeting key are the revisions of exactly one
\* document, named by the upper-cased class and the key, numbered 1..N in
\* ascending record number, with the author and title of the record with
\* the highest number; the class has no other document.
C23_OneDocumentPerMeeting ==
    Met =>
        \A c \in {"cma", "cmm", "cfptca", "cfptcm"} :
            LET recs == {x \in DOMAIN ures.data : ures.data[x].class = c}
                files == FilesOf(c)
            IN  /\ \A x \in recs :
                      LET same == {y \in recs : MeetingKey(y) = MeetingKey(x)}
                          mine == {i \in 1..Len(files) :
                                      files[i].json.id
                                          = <<upper(c), int(MeetingKey(x))>>}
                      IN  /\ Cardinality(mine) = 1
                          /\ \A i \in mine :
                                LET revs == files[i].json.revisions
                                IN  /\ {revs[r].ext_id : r \in 1..Len(revs)}
                                          = same
                                    /\ Len(revs) = Cardinality(same)
                                    /\ \A r \in 1..Len(revs) :
                                          revs[r].id = files[i].json.id
                                                       \o <<"r", r>>
                                    /\ \A q, r \in 1..Len(revs) :
                                          q < r => int(revs[q].ext_id)
                                                   < int(revs[r].ext_id)
                                    /\ files[i].json.author
                                          = ures.data[revs[Len(revs)].ext_id].author
                                    /\ files[i].json.title
                                          = ures.data[revs[Len(revs)].ext_id].title
                /\ \A i \in 1..Len(files) :
                      \E x \in recs :
                          files[i].json.id = <<upper(c), int(MeetingKey(x))>>

\* An agenda document with two revisions whose records differ in author
\* and title, beside a document of another meeting class.
C23_Witness ==
    /\ Met
    /\ \E i \in 1..Len(ures.out) :
          LET json == ures.out[i].json
          IN  /\ ures.out[i].dir = "CMA"
              /\ Len(json.revisions) = 2
              /\ json.revisions[1].author # json.revisions[2].author
              /\ json.revisions[1].title # json.revisions[2].title
              /\ json.author = json.revisions[2].author
    /\ \E i \in 1..Len(ures.out) : ures.out[i].dir = "CMM"

\* The files written for the meeting classes.
MeetingFiles ==
    SelectSeq(ures.out,
              LAMBDA f : f.dir \in {"CM", "CMA", "CMM", "CFPTCA", "CFPTCM"})

MeetingClass == {"cm", "cma", "cmm", "cfptca", "cfptcm"}

\* The main title of record x of the mapping d names the month October,
\* and the year 2023 is in the title or is the year of the record's date:
\* the date is of October, or of November for a class of minutes.
OctoberOf2023(d, x) ==
    LET words == {d[x].maintitle[i] : i \in 1..Len(d[x].maintitle)}
        dmon == SubSeq(d[x].date, 6, 7)
    IN  /\ "October" \in words
        /\ \/ "2023" \in words
           \/ /\ SubSeq(d[x].date, 1, 4) = <<"2", "0", "2", "3">>
              /\ \/ dmon = <<"1", "0">>
                 \/ d[x].class \in {"cmm", "cfptcm"} /\ dmon = <<"1", "1">>

\* C25: the document of a record of a meeting class with an OVERRIDE_DATE
\* entry (N999: 200303) is named by the override whatever month and year
\* its title holds; the document of a record without an entry is named by
\* the year and month of its title, the year being that of its date when
\* the title has none and the date fits the month; and when no year or no
\* month is found the run fails with 'could not parse date' and the
\* number and title of the record, so that in a run that has not failed
\* every record of a meeting class has a key.
C25_KeyOverrideOrParsedOrFatal ==
    /\ Met =>
          /\ \A i \in 1..Len(MeetingFiles) :
                LET json == MeetingFiles[i].json
                    head == json.revisions[1].ext_id
                IN  json.id[2] = IF head = N999 THEN 200303 ELSE 202310
          /\ \A x \in DOMAIN ures.data :
                (ures.data[x].class \in MeetingClass /\ x # N999)
                    => OctoberOf2023(ures.data, x)
    /\ (upc = "failed" /\ ures.err.msg = "could not parse date") =>
          LET x == ures.err.arg[1]
          IN  /\ x \in DOMAIN ures.data
              /\ ures.err.arg[2] = ures.data[x].title
              /\ ures.data[x].class \in MeetingClass
              /\ x # N999
              /\ ~OctoberOf2023(ures.data, x)
    /\ upc = "failed" =>
          \/ ures.err.msg = "could not parse date"
          \/ /\ ures.err.msg = "KeyError"
             /\ \A x \in DOMAIN ures.data :
                   (ures.data[x].class = "cm" /\ x # N999)
                       => OctoberOf2023(ures.data, x)

\* N999 titled 'Agenda October 2023' is in the document CMA200303, beside
\* a record whose year is taken from its date.
C25_Witness ==
    /\ Met
    /\ \E i \in 1..Len(MeetingFiles) :
          LET json == MeetingFiles[i].json
          IN  /\ json.id = <<"CMA", 200303>>
              /\ json.revisions[1].ext_id = N999
              /\ json.title.words = <<"Agenda", "October", "2023">>
    /\ \E x \in DOMAIN ures.data :
          /\ x # N999
          /\ ures.data[x].cid # <<>>
          /\ ures.data[x].title.words \in {<<"Agenda", "October">>,
                                            <<"Minutes", "October">>}

\* The places of record x in the CM files: file and revision.
CmPlaces(x) ==
    UNION {{<<i, r>> :
               r \in {q \in 1..Len(FilesOf("cm")[i].json.revisions) :
                         FilesOf("cm")[i].json.revisions[q].ext_id = x}} :
           i \in 1..Len(FilesOf("cm"))}

\* The CM documents of one meeting are numbered 1..K in ascending number
\* of their first records.
CmNumbered ==
    \A i \in 1..Len(FilesOf("cm")) :
        LET id == FilesOf("cm")[i].json.id
            head(j) == FilesOf("cm")[j].json.revisions[1].ext_id
        IN  /\ id[1] = "CM" /\ id[3] = "x"
            /\ id[2] = int(MeetingKey(head(i)))
            /\ id[4] = 1 + Cardinality(
                   {j \in 1..Len(FilesOf("cm")) :
                       /\ FilesOf("cm")[j].json.id[2] = id[2]
                       /\ int(head(j)) < int(head(i))})

\* Record x of class cm is in the CM document the claim gives it: its own
\* document as r1, or for the records of the version group <<N2047,
\* N2057>> the document at N2047 with the revisions in list order and the
\* author and title of N2057.
CmPlaced(x) ==
    /\ Cardinality(CmPlaces(x)) = 1
    /\ \A p \in CmPlaces(x) :
          LET json == FilesOf("cm")[p[1]].json
          IN  IF x \in {N2047, N2057}
              THEN /\ [r \in 1..Len(json.revisions) |->
                          json.revisions[r].ext_id] = <<N2047, N2057>>
                   /\ json.revisions[p[2]].id = json.id \o <<"r", p[2]>>
                   /\ json.author = ures.data[N2057].author
                   /\ json.title = ures.data[N2057].title
              ELSE /\ Len(json.revisions) = 1
                   /\ json.revisions[1].id = json.id \o <<"r", 1>>
                   /\ json.author = ures.data[x].author
                   /\ json.title = ures.data[x].title

\* C26: every cm record is in exactly one CM document, a record outside
\* the version-group table as the revision r1 of its own document
\* CM<key>x<k>, the records of a version group together in one document at
\* the first listed record; the documents of a meeting are numbered 1..K
\* in ascending record number.
C26_EveryCmRecordPlaced ==
    Met =>
        /\ CmNumbered
        /\ \A x \in {y \in DOMAIN ures.data : ures.data[y].class = "cm"} :
              CmPlaced(x)

\* What holds: the same for every cm record except a later version of the
\* table (N2057) whose first listed record (N2047) is not a cm record of
\* the mapping; such a record is in no document at all.
C26_PlacedUnlessOrphanVersion ==
    Met =>
        /\ CmNumbered
        /\ \A x \in {y \in DOMAIN ures.data : ures.data[y].class = "cm"} :
              IF x = N2057 /\ (N2047 \notin DOMAIN ures.data
                               \/ ures.data[N2047].class # "cm")
              THEN CmPlaces(x) = {} /\ ures.data[x].cid = <<>>
              ELSE CmPlaced(x)

\* The content of a list written at the end of the run.
SideFile(name) == (CHOOSE f \in side : f.file = name).content

\* Record x is a revision of a document written in the run.
Emitted(x) == \E s \in RevSlots : RevAt(s).ext_id = x

\* C27: the text list has one line for every record of the mapping; the
\* line starts with a revision identifier of the record when the record is
\* a revision of a document written, and with the record's class when it
\* is of none; N-documents.json holds exactly the records that are of
\* none, in descending record number.
C27_AuditListsPartition ==
    pc = "done" =>
        LET list == SideFile("tmp-papers-list.txt")
            ndocs == SideFile("N-documents.json")
        IN  /\ Len(list) = Cardinality(DOMAIN data)
            /\ {list[i].ext_id : i \in 1..Len(list)} = DOMAIN data
            /\ \A i \in 1..Len(list) :
                  IF Emitted(list[i].ext_id)
                  THEN \E s \in RevSlots :
                           /\ RevAt(s).ext_id = list[i].ext_id
                           /\ RevAt(s).id = list[i].tag
                  ELSE list[i].tag = <<data[list[i].ext_id].class>>
            /\ {ndocs[i].ext_id : i \in 1..Len(ndocs)}
                  = {x \in DOMAIN data : ~Emitted(x)}
            /\ \A i, j \in 1..Len(ndocs) :
                  i < j => int(ndocs[i].ext_id) > int(ndocs[j].ext_id)

\* A run has ended with a record that is a revision of a document and
\* a record that is of none.
C27_Witness ==
    /\ pc = "done"
    /\ \E x \in DOMAIN data : Emitted(x)
    /\ \E x \in DOMAIN data : ~Emitted(x)

\* Both calls of generate_autonum_docs have returned in this run.
AutonumDone ==
    \/ pc \in {"cpub", "meeting", "lists", "done"}
    \/ pc = "failed"
       /\ err.at \in {"generate_cpub_docs", "generate_meeting_docs"}

\* The maximum-numbered member of the group of record x.
MaxOf(x) == CHOOSE m \in group(x) : \A n \in group(x) : int(n) <= int(m)

\* The number of auto-numbered documents made of the group of record x.
DocsOfGroup(x) ==
    Cardinality({i \in 1..Len(c_docs) :
                    c_docs[i].nums = SortedNums(group(x))})
    + Cardinality({i \in 1..Len(cadm_docs) :
                      cadm_docs[i].nums = SortedNums(group(x))})

\* C28: every group with a record of class c or cadm is examined by the
\* selection rule: its maximum-numbered member has one of the two classes,
\* and the group is one document of that class when the rule selects the
\* member and none when the rule rejects it.
C28_NoEligibleGroupSkipped ==
    AutonumDone =>
        \A x \in DOMAIN data : data[x].class \in Eligible =>
            /\ data[MaxOf(x)].class \in Eligible
            /\ \A k \in AutonumClasses : k.class = data[MaxOf(x)].class =>
                  DocsOfGroup(x) = IF Selects(k, MaxOf(x)) THEN 1 ELSE 0

\* What holds: a group whose maximum-numbered member is of neither class
\* is examined by no call and is no document, whatever its c and cadm
\* records are; every other group is examined once.
C28_SkippedUnderOtherMax ==
    AutonumDone =>
        \A x \in DOMAIN data : data[x].class \in Eligible =>
            IF data[MaxOf(x)].class \in Eligible
            THEN \A k \in AutonumClasses : k.class = data[MaxOf(x)].class =>
                     DocsOfGroup(x) = IF Selects(k, MaxOf(x)) THEN 1 ELSE 0
            ELSE /\ DocsOfGroup(x) = 0
                 /\ data[x].convert_doc = <<>>

\* Record x is eligible and refers, in a group that does not hold the
\* number, to a number that is no key of the mapping.
Dangling(x) ==
    /\ data[x].class \in Eligible
    /\ HasUpdatesRef(data[x].auxtitle)
    /\ UpdatesRef(data[x].auxtitle) \notin DOMAIN data

\* C29: once the first two loops of classify_docs have run, a mapping with
\* a dangling reference is only found before the first pass of the
\* "updates" loop or in a run that this loop has ended with KeyError of a
\* dangling number, before any document was generated or any file
\* written.
C29_DanglingReferenceAborts ==
    (\E x \in DOMAIN data : Dangling(x)) =>
        \/ pc \in {"group titles", "updates"} /\ out = <<>>
        \/ /\ pc = "failed"
           /\ err.msg = "KeyError"
           /\ err.at = "classify_docs"
           /\ \E x \in DOMAIN data :
                 Dangling(x) /\ err.arg = UpdatesRef(data[x].auxtitle)
           /\ out = <<>> /\ side = {}
           /\ c_docs = NoDocs /\ cadm_docs = NoDocs
           /\ cpub_docs = NoDocs /\ m_docs = NoDocs

\* The run has failed in classify_docs on the reference of N1000 to
\* N3216, which the log does not hold.
C29_Witness ==
    /\ pc = "failed"
    /\ err.at = "classify_docs"
    /\ DOMAIN data # {}
    /\ N3216 \notin DOMAIN data
    /\ N1000 \in DOMAIN data
    /\ Dangling(N1000)
    /\ Cardinality(DOMAIN data) >= 2


\* write_chron has written its list.
Written == upc = "written"

\* The letters of one alphabetical token of an identifier.
TokenText(t) == SubSeq(IdText(<<t, 0>>), 1, Len(IdText(<<t, 0>>)) - 1)

\* Identifier a is above identifier b: at the first token that differs
\* the larger number, or the later word, is a's; or b is a prefix of a.
IdAbove(a, b) ==
    LET n == IF Len(a) < Len(b) THEN Len(a) ELSE Len(b)
        diff == {i \in 1..n : a[i] # b[i]}
        first(d) == CHOOSE i \in d : \A j \in d : i <= j
    IN  IF diff = {} THEN Len(a) > Len(b)
        ELSE IF first(diff) % 2 = 0 THEN a[first(diff)] > b[first(diff)]
        ELSE AlphaLess(TokenText(b[first(diff)]), TokenText(a[first(diff)]))

\* The loaded revisions of the classes write_chron was called with.
Requested == {id \in DOMAIN uarg.revs : id[1] \in ures.classes}

\* C30: write_chron lists every loaded revision of the requested classes
\* exactly once, later dates first and, on one date, identifiers in
\* descending order with their numbers compared as integers; no two keys of
\* loaded identifiers have an alphabetical part where the other has a
\* numerical one, so that no comparison fails.
C30_ChronDescendingOnce ==
    Written =>
        /\ ures.err = NoErr
        /\ Len(ures.list) = Cardinality(Requested)
        /\ {ures.list[i] : i \in 1..Len(ures.list)} = Requested
        /\ \A i, j \in 1..Len(ures.list) :
               i < j =>
                   \/ StrLess(uarg.revs[ures.list[j]].date,
                              uarg.revs[ures.list[i]].date)
                   \/ /\ uarg.revs[ures.list[j]].date
                           = uarg.revs[ures.list[i]].date
                      /\ IdAbove(ures.list[i], ures.list[j])
        /\ \A a, b \in DOMAIN uarg.revs :
               ~PartsTypeError(split_doc_id(IdText(a)).parts,
                               split_doc_id(IdText(b)).parts)

\* C4000r10 is listed above C4000r9 of the same date, after a revision of
\* a later date.
C30_Witness ==
    /\ Written
    /\ ures.err = NoErr
    /\ Len(ures.list) = 3
    /\ ures.list[2] = <<"C", 4000, "r", 10>>
    /\ ures.list[3] = <<"C", 4000, "r", 9>>
    /\ uarg.revs[ures.list[2]].date = uarg.revs[ures.list[3]].date
    /\ StrLess(uarg.revs[ures.list[2]].date, uarg.revs[ures.list[1]].date)

====
